---- MODULE Spec2Model ----
(***************************************************************************)
(* Hybrid relevance ranking of src/search.py: category inference, the      *)
(* multiplicative re-weighting pipeline, semantic_search_products and      *)
(* hybrid_search_products.                                                 *)
(*                                                                         *)
(* Text.  Python strings are TLA+ strings.  A character outside ASCII is   *)
(* written as its code point in angle brackets, "<5587><53ed>" being       *)
(* U+5587 U+53ED, so that substring containment between transliterated     *)
(* strings coincides with substring containment between the originals      *)
(* (no keyword of the tables consists of hexadecimal digits only).         *)
(*                                                                         *)
(* Numbers.  Scores are exact rationals.  A score that a result carries    *)
(* (after round(x, 4)) is an integer number of ten-thousandths; scores     *)
(* inside the pipeline are fractions [n, d] of arbitrary-size naturals.    *)
(* Floating-point rounding error of the multiplications is not modelled;   *)
(* round(x, 4) is modelled as round-half-even of the exact value.          *)
(***************************************************************************)
EXTENDS Integers, Sequences, FiniteSets, TLC

(***************************************************************************)
(* Strings                                                                 *)
(***************************************************************************)

\* Python `needle in hay` for two strings.
Contains(needle, hay) ==
  \E i \in 1..(Len(hay) - Len(needle) + 1) :
     SubSeq(hay, i, i + Len(needle) - 1) = needle

UpperCase == "ABCDEFGHIJKLMNOPQRSTUVWXYZ"
LowerCase == "abcdefghijklmnopqrstuvwxyz"

LowerChar(c) ==
  IF \E i \in 1..26 : SubSeq(UpperCase, i, i) = c
  THEN LET i == CHOOSE j \in 1..26 : SubSeq(UpperCase, j, j) = c
       IN  SubSeq(LowerCase, i, i)
  ELSE c

\* str.lower()
RECURSIVE Lower(_)
Lower(s) == IF s = "" THEN "" ELSE LowerChar(SubSeq(s, 1, 1)) \o Lower(Tail(s))

\* str.strip()
RECURSIVE LStrip(_)
LStrip(s) == IF s # "" /\ SubSeq(s, 1, 1) = " " THEN LStrip(Tail(s)) ELSE s

RECURSIVE RStrip(_)
RStrip(s) ==
  IF s # "" /\ SubSeq(s, Len(s), Len(s)) = " "
  THEN RStrip(SubSeq(s, 1, Len(s) - 1)) ELSE s

Strip(s) == RStrip(LStrip(s))

\* ' '.join(parts) for a sequence of strings
RECURSIVE Join(_)
Join(parts) ==
  IF parts = <<>> THEN ""
  ELSE IF Len(parts) = 1 THEN parts[1]
  ELSE parts[1] \o " " \o Join(Tail(parts))

\* x in xs, for a list xs
InList(x, xs) == \E i \in 1..Len(xs) : xs[i] = x

(***************************************************************************)
(* Metadata values.  A metadata dict is a function from keys to tagged     *)
(* values: a str, a list of values, an int, or None.                       *)
(***************************************************************************)
Str(s)   == [t |-> "str",  v |-> s]
List(xs) == [t |-> "list", v |-> xs]
Num(n)   == [t |-> "int",  v |-> n]
NoneV    == [t |-> "none", v |-> ""]

\* dict.get(k) and dict.get(k, default)
Get(m, k)      == IF k \in DOMAIN m THEN m[k] ELSE NoneV
GetD(m, k, d)  == IF k \in DOMAIN m THEN m[k] ELSE d

\* truth value of a Python object
Truthy(x) ==
  /\ x.t # "none"
  /\ x.t = "str" => x.v # ""
  /\ x.t = "list" => x.v # <<>>
  /\ x.t = "int" => x.v # 0

\* ' '.join(xs) raises TypeError when an item of xs is no str
JoinRaises(xs) == \E i \in 1..Len(xs) : xs[i].t # "str"

\* x.lower() or x.strip() raises AttributeError when x is no str
NotStr(x) == x.t # "str"

\* a or b
Or(a, b) == IF Truthy(a) THEN a ELSE b

\* the str behind a value known to be a str
StrOf(x) == x.v

\* the strings of a list of str values
ItemStrs(xs) == [i \in 1..Len(xs) |-> xs[i].v]

(***************************************************************************)
(* Static keyword tables, in declaration order: <<name, keywords>>.        *)
(***************************************************************************)
CATEGORY_KEYWORDS ==
  <<
    <<"<97f3><983b><8a2d><5099>", <<"<5587><53ed>", "<97f3><7bb1>", "<97f3><97ff>", "speaker", "<8033><6a5f>", "headphone", "earbud", "<9ea5><514b><98a8>", "mic", "<97f3><983b>">>>>,
    <<"<5bb6><5177>", <<"<6905><5b50>", "<6905>", "<684c><5b50>", "<684c>", "<6c99><767c>", "<5e8a>", "<5bb6><5177>", "furniture">>>>,
    <<"<751f><6d3b><5bb6><96fb>", <<"<98a8><6247>", "<6e05><6de8>", "<6a5f><5668><4eba>", "<6383><5730>", "<6e05><6f54>", "<6d88><6bd2>", "<76d2>">>>>,
    <<"<96fb><8166><5468><908a>", <<"<9375><76e4>", "<6ed1><9f20>", "<9f20><6a19>", "<986f><793a><5668>", "monitor", "<9375>", "keyboard", "mouse", "<5468><908a>", "<8b77><773c>", "<87a2><5e55><71c8>", "<87a2><5e55><639b><71c8>", "<8b77><773c><71c8>", "<8b77><76ee>">>>>,
    <<"<7a7f><6234><5f0f><88dd><7f6e>", <<"<624b><9336>", "<624b><74b0>", "<667a><80fd>", "<7a7f><6234>", "wearable", "watch", "band">>>>,
    <<"<5bb6><5ead><5a1b><6a02>", <<"<6295><5f71>", "<6295><5f71><6a5f>", "cinema", "<87a2><5e55>", "<986f><793a>", "<5a1b><6a02>">>>>,
    <<"<5132><5b58><8a2d><5099>", <<"ssd", "<786c><789f>", "<5b58><5132>", "<5132><5b58>", "storage", "<786c><76e4>">>>>,
    <<"<5eda><623f><5bb6><96fb>", <<"<5496><5561>", "<5496><5561><6a5f>", "coffee", "<5eda><623f>">>>>,
    <<"<500b><4eba><8b77><7406>", <<"<7259><5237>", "<5439><98a8><6a5f>", "<8b77><7406>", "<7f8e><5bb9>">>>>,
    <<"<624b><6a5f><914d><4ef6>", <<"<96fb><6e90>", "<884c><52d5>", "<624b><6a5f>", "<5145><96fb>", "<914d><4ef6>">>>>,
    <<"<7db2><8def><8a2d><5099>", <<"<8def><7531><5668>", "wifi", "<7db2><8def>", "router">>>>,
    <<"<651d><5f71><5668><6750>", <<"<651d><5f71><6a5f>", "<76f8><6a5f>", "camera">>>>,
    <<"<667a><6167><5bb6><5c45>", <<"<9580><9234>", "<667a><80fd>", "<667a><6167>", "smart", "home">>>>,
    <<"<904b><52d5><5668><6750>", <<"<745c><73c8>", "<904b><52d5>", "sport">>>>
  >>


\* CATEGORY_KEYWORDS.get(cat, [])
KeywordsOf(table, name) ==
  IF \E i \in 1..Len(table) : table[i][1] = name
  THEN table[CHOOSE i \in 1..Len(table) : table[i][1] = name][2]
  ELSE <<>>

\* some keyword of kws occurs in the (lower-cased) text
AnyKeywordIn(kws, text) == \E j \in 1..Len(kws) : Contains(Lower(kws[j]), text)

\* number of keywords of kws that occur in the text
RECURSIVE CountHits(_, _)
CountHits(kws, text) ==
  IF kws = <<>> THEN 0
  ELSE (IF Contains(Lower(Head(kws)), text) THEN 1 ELSE 0) + CountHits(Tail(kws), text)

(***************************************************************************)
(* QueryAnalyzer                                                           *)
(***************************************************************************)

\* the set built from the query as typed, without lower-casing it
TargetCategorySet_casesensitive(query) ==
  {CATEGORY_KEYWORDS[i][1] : i \in
     {i \in 1..Len(CATEGORY_KEYWORDS) : AnyKeywordIn(CATEGORY_KEYWORDS[i][2], query)}}

\* The set built by infer_target_categories_from_query.
TargetCategorySet(query) ==
  {CATEGORY_KEYWORDS[i][1] : i \in
     {i \in 1..Len(CATEGORY_KEYWORDS) : AnyKeywordIn(CATEGORY_KEYWORDS[i][2], Lower(query))}}

\* list(set): the lists a set can be turned into (iteration order of a set
\* of str is not fixed by the language).
ListsOf(S) ==
  {f \in [1..Cardinality(S) -> S] : \A i, j \in 1..Cardinality(S) : i # j => f[i] # f[j]}

infer_target_categories_from_query(query) == ListsOf(TargetCategorySet(query))

(***************************************************************************)
(* Category weight, filter and match score                                 *)
(***************************************************************************)

\* The weight with the related-category value of the docstring (1.3x)
\* returned where no other rule applies.
calculate_category_weight_related(product_category, target_categories) ==
  IF target_categories = <<>> THEN <<1, 1>>
  ELSE IF InList(product_category, target_categories) THEN <<2, 1>>
  ELSE IF /\ \E i \in 1..Len(target_categories) :
                \/ Contains("<97f3><983b>", target_categories[i])
                \/ Contains("<5587><53ed>", target_categories[i])
          /\ \/ Contains("<97f3><983b>", product_category)
             \/ Contains("<5587><53ed>", product_category)
       THEN <<2, 1>>
  ELSE IF /\ InList("<5bb6><5ead><5a1b><6a02>", target_categories)
          /\ Contains("<6295><5f71>", product_category)
       THEN <<3, 2>>
  ELSE IF \/ Contains("<751f><6d3b><5bb6><96fb>", product_category)
          \/ InList("<751f><6d3b><5bb6><96fb>", target_categories)
       THEN <<13, 10>>
  ELSE <<7, 10>>

\* Weights are fractions <<numerator, denominator>>.
calculate_category_weight(product_category, target_categories) ==
  IF target_categories = <<>> THEN <<1, 1>>
  ELSE IF InList(product_category, target_categories) THEN <<2, 1>>
  ELSE IF /\ \E i \in 1..Len(target_categories) :
                \/ Contains("<97f3><983b>", target_categories[i])
                \/ Contains("<5587><53ed>", target_categories[i])
          /\ \/ Contains("<97f3><983b>", product_category)
             \/ Contains("<5587><53ed>", product_category)
       THEN <<2, 1>>
  ELSE IF /\ InList("<5bb6><5ead><5a1b><6a02>", target_categories)
          /\ Contains("<6295><5f71>", product_category)
       THEN <<3, 2>>
  ELSE <<7, 10>>

\* The text collected from product_name, name, description and features.
RECURSIVE CollectContent(_, _)
CollectContent(metadata, keys) ==
  IF keys = <<>> THEN <<>>
  ELSE LET v == Get(metadata, Head(keys))
       IN  (IF v.t = "list" THEN <<Join(ItemStrs(v.v))>>
            ELSE IF v.t = "str" THEN <<v.v>>
            ELSE <<>>) \o CollectContent(metadata, Tail(keys))

ContentKeys == <<"product_name", "name", "description", "features">>

ContentLower(metadata) == Lower(Join(CollectContent(metadata, ContentKeys)))

\* collecting the text raises when a list among the four holds a non-str
CollectContentRaises(metadata) ==
  \E i \in 1..Len(ContentKeys) :
     LET v == Get(metadata, ContentKeys[i]) IN v.t = "list" /\ JoinRaises(v.v)

\* (metadata.get('category') or "").strip()
ProdCat(metadata) == Strip(StrOf(Or(Get(metadata, "category"), Str(""))))

\* a filter that looks for the keywords of the first target category only
is_product_matching_categories_firsttarget(metadata, target_categories) ==
  IF target_categories = <<>> THEN TRUE
  ELSE IF ProdCat(metadata) # "" /\ InList(ProdCat(metadata), target_categories) THEN TRUE
  ELSE AnyKeywordIn(KeywordsOf(CATEGORY_KEYWORDS, target_categories[1]),
                    ContentLower(metadata))

is_product_matching_categories(metadata, target_categories) ==
  IF target_categories = <<>> THEN TRUE
  ELSE IF ProdCat(metadata) # "" /\ InList(ProdCat(metadata), target_categories) THEN TRUE
  ELSE \E i \in 1..Len(target_categories) :
          AnyKeywordIn(KeywordsOf(CATEGORY_KEYWORDS, target_categories[i]),
                       ContentLower(metadata))

\* is_product_matching_categories and compute_category_match_score read the
\* same fields in the same order: they raise on the same metadata.
CategoryMatchRaises(metadata, target_categories) ==
  /\ target_categories # <<>>
  /\ \/ NotStr(Or(Get(metadata, "category"), Str("")))
     \/ /\ ~(ProdCat(metadata) # "" /\ InList(ProdCat(metadata), target_categories))
        /\ CollectContentRaises(metadata)

\* calculate_category_weight(category, ...): `"..." in product_category`
\* raises TypeError when the category is None or a number and is no member
\* of target_categories.
CategoryWeightRaises(product_category, target_categories) ==
  /\ target_categories # <<>>
  /\ product_category.t \in {"none", "int"}

RECURSIVE TotalPossible(_)
TotalPossible(cats) ==
  IF cats = <<>> THEN 0
  ELSE Len(KeywordsOf(CATEGORY_KEYWORDS, Head(cats))) + TotalPossible(Tail(cats))

RECURSIVE TotalHits(_, _)
TotalHits(cats, content) ==
  IF cats = <<>> THEN 0
  ELSE CountHits(KeywordsOf(CATEGORY_KEYWORDS, Head(cats)), content)
         + TotalHits(Tail(cats), content)

Min(a, b) == IF a <= b THEN a ELSE b
Max(a, b) == IF a >= b THEN a ELSE b

\* a match score normalised by the number of keywords, without the cap of 4
compute_category_match_score_uncapped(metadata, target_categories) ==
  IF target_categories = <<>> THEN <<1, 1>>
  ELSE IF ProdCat(metadata) # "" /\ InList(ProdCat(metadata), target_categories) THEN <<1, 1>>
  ELSE IF TotalPossible(target_categories) = 0 THEN <<1, 2>>
  ELSE <<TotalHits(target_categories, ContentLower(metadata)),
         TotalPossible(target_categories)>>

\* The match score as a fraction <<n, d>> with 0 <= n <= d.
compute_category_match_score(metadata, target_categories) ==
  IF target_categories = <<>> THEN <<1, 1>>
  ELSE IF ProdCat(metadata) # "" /\ InList(ProdCat(metadata), target_categories) THEN <<1, 1>>
  ELSE LET total_hits     == TotalHits(target_categories, ContentLower(metadata))
           total_possible == TotalPossible(target_categories)
           cap            == Max(1, Min(total_possible, 4))
       IN  IF total_possible = 0 THEN <<1, 2>>
           ELSE IF total_hits >= cap THEN <<1, 1>>
           ELSE <<total_hits, cap>>

(***************************************************************************)
(* Attribute match and product-type match                                  *)
(***************************************************************************)
ATTRIBUTE_KEYWORDS ==
  <<
    <<"<9632><6c34>", <<"<9632><6c34>", "waterproof">>>>,
    <<"<964d><566a>", <<"<964d><566a>", "noise-canceling", "anc">>>>,
    <<"<5feb><5145>", <<"<5feb><5145>", "<5feb><901f><5145><96fb>", "quick charge", "fast">>>>,
    <<"<7e8c><822a>", <<"<7e8c><822a>", "battery", "<9577><6548>", "endurance">>>>,
    <<"<8b77><773c>", <<"<8b77><773c>", "<8b77><76ee>", "<9632><85cd><5149>", "blue light">>>>,
    <<"<9ad8><6e05>", <<"4k", "8k", "<9ad8><6e05>", "<9ad8><7cbe>", "ultra">>>>,
    <<"<8f15><91cf>", <<"<8f15>", "<5c0f>", "compact", "portable">>>>,
    <<"<975c><97f3>", <<"<975c><97f3>", "<7121><8072>", "quiet", "silent">>>>
  >>

\* (features joined, lower-cased): a list is joined by blanks, anything else
\* is (features or "").
FeaturesStr(metadata) ==
  LET features == GetD(metadata, "features", List(<<>>))
  IN  IF features.t = "list" THEN Lower(Join(ItemStrs(features.v)))
      ELSE Lower(StrOf(Or(features, Str(""))))

\* (metadata.get('name') or metadata.get('product_name') or "").lower()
NameLower(metadata) ==
  Lower(StrOf(Or(Or(Get(metadata, "name"), Get(metadata, "product_name")), Str(""))))

ProductText(metadata) ==
  Lower(NameLower(metadata) \o " "
        \o Lower(StrOf(Or(Get(metadata, "description"), Str("")))) \o " "
        \o FeaturesStr(metadata))

\* The first keyword of kws that occurs in the text, as an index; 0 if none.
FirstKeywordIn(kws, text) ==
  IF AnyKeywordIn(kws, text)
  THEN CHOOSE j \in 1..Len(kws) :
         /\ Contains(Lower(kws[j]), text)
         /\ \A k \in 1..(j - 1) : ~Contains(Lower(kws[k]), text)
  ELSE 0

\* <<matched_attrs, total_attrs>> of the loop over ATTRIBUTE_KEYWORDS: an
\* attribute counts in total_attrs when one of its keywords is in the query,
\* and in matched_attrs when the first such keyword is in the product text.
RECURSIVE AttrCounts(_, _, _)
AttrCounts(table, query_lower, product_text) ==
  IF table = <<>> THEN <<0, 0>>
  ELSE LET rest == AttrCounts(Tail(table), query_lower, product_text)
           kws  == Head(table)[2]
           j    == FirstKeywordIn(kws, query_lower)
       IN  IF j = 0 THEN rest
           ELSE <<rest[1] + (IF Contains(Lower(kws[j]), product_text) THEN 1 ELSE 0),
                  rest[2] + 1>>

\* The attribute score as a fraction <<n, d>>.
compute_attribute_match_score(metadata, query) ==
  LET c == AttrCounts(ATTRIBUTE_KEYWORDS, Lower(query), ProductText(metadata))
  IN  IF c[2] = 0 THEN <<1, 2>> ELSE <<c[1], Max(1, c[2])>>

PRODUCT_TYPES ==
  <<
    <<"<5587><53ed>", <<"<5587><53ed>", "speaker", "<97f3><7bb1>">>>>,
    <<"<8033><6a5f>", <<"<8033><6a5f>", "earbuds", "headphones", "pods", "earbud">>>>,
    <<"<9ea5><514b><98a8>", <<"<9ea5><514b><98a8>", "microphone", "mic">>>>,
    <<"<6905><5b50>", <<"<6905><5b50>", "<6905>", "chair">>>>,
    <<"<9375><76e4>", <<"<9375><76e4>", "keyboard">>>>,
    <<"<6ed1><9f20>", <<"<6ed1><9f20>", "<9f20><6a19>", "mouse">>>>,
    <<"<986f><793a><5668>", <<"<986f><793a><5668>", "monitor", "<87a2><5e55>">>>>,
    <<"<624b><9336>", <<"<624b><9336>", "watch">>>>,
    <<"<6295><5f71>", <<"<6295><5f71>", "<6295><5f71><6a5f>", "projector">>>>
  >>

\* a type score that looks at the first mentioned product type only
compute_product_type_match_score_firsttype(metadata, query) ==
  LET query_lower  == Lower(query)
      product_name == NameLower(metadata)
      mentioned    == {i \in 1..Len(PRODUCT_TYPES) :
                         AnyKeywordIn(PRODUCT_TYPES[i][2], query_lower)}
      first        == CHOOSE i \in mentioned : \A k \in mentioned : i <= k
  IN  IF mentioned = {} THEN 6
      ELSE IF Contains(Lower(PRODUCT_TYPES[first][2][
                               FirstKeywordIn(PRODUCT_TYPES[first][2], query_lower)]),
                       product_name)
      THEN 10
      ELSE 3

\* The type score in tenths: 10 (1.0), 3 (0.3) or 6 (0.6).
compute_product_type_match_score(metadata, query) ==
  LET query_lower  == Lower(query)
      product_name == NameLower(metadata)
  IN  IF \E i \in 1..Len(PRODUCT_TYPES) :
            LET kws == PRODUCT_TYPES[i][2]
                j   == FirstKeywordIn(kws, query_lower)
            IN  j # 0 /\ Contains(Lower(kws[j]), product_name)
      THEN 10
      ELSE IF \E i \in 1..Len(PRODUCT_TYPES) : AnyKeywordIn(PRODUCT_TYPES[i][2], query_lower)
      THEN 3
      ELSE 6

\* compute_attribute_match_score raises on a features list holding a non-str
\* and on a features, name or description that is neither a str nor falsy.
AttributeMatchRaises(metadata) ==
  LET features == GetD(metadata, "features", List(<<>>))
  IN  \/ features.t = "list" /\ JoinRaises(features.v)
      \/ features.t # "list" /\ NotStr(Or(features, Str("")))
      \/ NotStr(Or(Or(Get(metadata, "name"), Get(metadata, "product_name")), Str("")))
      \/ NotStr(Or(Get(metadata, "description"), Str("")))

\* compute_product_type_match_score raises on a name that is neither a str
\* nor falsy.
ProductTypeMatchRaises(metadata) ==
  NotStr(Or(Or(Get(metadata, "name"), Get(metadata, "product_name")), Str("")))

(***************************************************************************)
(* Exact arithmetic.  A natural of arbitrary size is the sequence of its   *)
(* base-10000 digits, least significant first, without leading zeros       *)
(* (<<>> is 0).  A score inside the pipeline is a fraction [n, d] of such  *)
(* naturals with d > 0.                                                    *)
(***************************************************************************)
Base == 10000

RECURSIVE BigOf(_)
BigOf(k) == IF k = 0 THEN <<>> ELSE <<k % Base>> \o BigOf(k \div Base)

\* x * p for a natural x and an integer 0 <= p < 200000
RECURSIVE BigMulCarry(_, _, _)
BigMulCarry(x, p, carry) ==
  IF x = <<>> THEN BigOf(carry)
  ELSE LET t == Head(x) * p + carry
       IN  <<t % Base>> \o BigMulCarry(Tail(x), p, t \div Base)

BigMul(x, p) == IF p = 0 THEN <<>> ELSE BigMulCarry(x, p, 0)

\* -1, 0, 1 as x < y, x = y, x > y
RECURSIVE BigCmpFrom(_, _, _)
BigCmpFrom(x, y, i) ==
  IF i = 0 THEN 0
  ELSE IF x[i] < y[i] THEN -1
  ELSE IF x[i] > y[i] THEN 1
  ELSE BigCmpFrom(x, y, i - 1)

BigCmp(x, y) ==
  IF Len(x) < Len(y) THEN -1
  ELSE IF Len(x) > Len(y) THEN 1
  ELSE BigCmpFrom(x, y, Len(x))

\* floor(a * p / q) for naturals within the machine's integers
MulDivFloor(a, p, q) == (a \div q) * p + ((a % q) * p) \div q

\* floor(n * 10^8 / d), two decimal digits at a time
RECURSIVE Div8From(_, _, _, _)
Div8From(quot, rem, d, steps) ==
  IF steps = 0 THEN quot
  ELSE Div8From(quot * 100 + (rem * 100) \div d, (rem * 100) % d, d, steps - 1)

Div8(n, d) == Div8From(n \div d, n % d, d, 4)

\* The fraction n/d of two small naturals.  Next to the exact numerator and
\* denominator a fraction carries lo, a lower bound of its value in units of
\* 10^-8, from which the exact rounding starts its search.
Frac(n, d) == [n |-> BigOf(n), d |-> BigOf(d), lo |-> Div8(n, d)]

\* x * (p/q)
FracMul(x, p, q) ==
  [n |-> BigMul(x.n, p), d |-> BigMul(x.d, q), lo |-> MulDivFloor(x.lo, p, q)]

\* compare the fraction x with k/10000: -1, 0, 1
FracCmpUnits(x, k) == BigCmp(BigMul(x.n, Base), BigMul(x.d, k))

\* compare the fraction x with (2k+1)/20000, the midpoint above k/10000
FracCmpHalf(x, k) == BigCmp(BigMul(x.n, 2 * Base), BigMul(x.d, 2 * k + 1))

\* the largest k with k/10000 <= x, searched upwards from k/10000 <= x
RECURSIVE FloorUnits(_, _)
FloorUnits(x, k) == IF FracCmpUnits(x, k + 1) >= 0 THEN FloorUnits(x, k + 1) ELSE k

\* round(x, 4) in ten-thousandths, ties to even
Round4(x) ==
  LET k == FloorUnits(x, x.lo \div Base)
      c == FracCmpHalf(x, k)
  IN  IF c > 0 THEN k + 1
      ELSE IF c < 0 THEN k
      ELSE IF k % 2 = 0 THEN k ELSE k + 1

\* min(x, 1.0)
Min1(x) == IF BigCmp(x.n, x.d) > 0 THEN Frac(1, 1) ELSE x

(***************************************************************************)
(* The inputs of the model: a catalogue of documents as the stores hold    *)
(* them, the queries, and the rankings the two retrievers may return.      *)
(***************************************************************************)

\* Documents (page_content, metadata).  1 and 2 are two chunks of product
\* P1 (a speaker of category "audio equipment", the first chunk carrying the
\* feature "waterproof"); 3 is a headphone whose category is no key of
\* CATEGORY_KEYWORDS; 4 is a desk lamp; 5 is a product document without
\* product_id; 6 is a speaker whose category is None; 7 is a speaker whose
\* features list holds a number; 8 is a headphone named "Earbud Pro"; 9 is a
\* chunk that is no product document, which no store of the model holds.
Documents ==
  << [page_content |-> "X-100 <5587><53ed> <9632><6c34>",
      metadata |-> [source       |-> Str("product_db"),
                    product_id   |-> Str("P1"),
                    product_name |-> Str("X-100 <5587><53ed>"),
                    category     |-> Str("<97f3><983b><8a2d><5099>"),
                    features     |-> List(<<Str("<9632><6c34>")>>)]],
     [page_content |-> "X-100 spec",
      metadata |-> [source       |-> Str("product_db"),
                    product_id   |-> Str("P1"),
                    product_name |-> Str("X-100 <5587><53ed>"),
                    category     |-> Str("<97f3><983b><8a2d><5099>"),
                    description  |-> Str("30h")]],
     [page_content |-> "Y-200 <8033><6a5f>",
      metadata |-> [source       |-> Str("product_db"),
                    product_id   |-> Str("P2"),
                    product_name |-> Str("Y-200 <8033><6a5f>"),
                    category     |-> Str("<8033><6a5f>"),
                    description  |-> Str("<964d><566a>")]],
     [page_content |-> "Z-300 <6aaf><71c8>",
      metadata |-> [source       |-> Str("product_db"),
                    product_id   |-> Str("P3"),
                    product_name |-> Str("Z-300 <6aaf><71c8>"),
                    category     |-> Str("<7167><660e>")]],
     [page_content |-> "<5587><53ed> <652f><67b6>",
      metadata |-> [source       |-> Str("product_db"),
                    name         |-> Str("<5587><53ed> <652f><67b6>"),
                    category     |-> Str("<97f3><983b><8a2d><5099>")]],
     [page_content |-> "W-400 <5587><53ed>",
      metadata |-> [source       |-> Str("product_db"),
                    product_id   |-> Str("P4"),
                    product_name |-> Str("W-400 <5587><53ed>"),
                    category     |-> NoneV]],
     [page_content |-> "V-500 <5587><53ed>",
      metadata |-> [source       |-> Str("product_db"),
                    product_id   |-> Str("P5"),
                    product_name |-> Str("V-500 <5587><53ed>"),
                    category     |-> Str("<97f3><983b><8a2d><5099>"),
                    features     |-> List(<<Str("<9632><6c34>"), Num(5)>>)]],
     [page_content |-> "Earbud Pro",
      metadata |-> [source       |-> Str("product_db"),
                    product_id   |-> Str("P6"),
                    product_name |-> Str("Earbud Pro"),
                    category     |-> Str("<97f3><983b><8a2d><5099>")]],
     [page_content |-> "FAQ",
      metadata |-> [source       |-> Str("faq")]] >>

DocIds == 1..Len(Documents)

\* the documents with well-formed metadata that the stores of Spec hold
Catalogue == {1, 2, 3, 4, 5}

\* the documents the stores of SpecEdge hold: a speaker, a headphone, the two
\* documents with malformed metadata and "Earbud Pro"
EdgeCatalogue == {1, 3, 6, 7, 8}

\* the documents the stores of SpecCompound hold: a speaker, a headphone, a
\* desk lamp and the speaker whose features list holds a number
CompoundCatalogue == {1, 3, 4, 7}

Meta(d) == Documents[d].metadata

\* metadata.get('product_id', ''), "" when missing or empty
ProductId(d) ==
  LET p == GetD(Meta(d), "product_id", Str("")) IN IF Truthy(p) THEN StrOf(p) ELSE ""

\* product_name or name or product_id or "Unknown"
DisplayName(metadata) ==
  StrOf(Or(Or(Or(Get(metadata, "product_name"), Get(metadata, "name")),
              Get(metadata, "product_id")), Str("Unknown")))

\* "" (empty), "waterproof speaker" (a category, an attribute and a product
\* type), "waterproof" (an attribute only)
Queries == {"", "<9632><6c34><5587><53ed>", "<9632><6c34>"}

\* the queries of SpecEdge: empty, whitespace only, "speaker headphone" (two
\* product types) and "earbuds" (two keywords of one product type, "earbuds"
\* and "earbud")
EdgeQueries == {"", " ", "<5587><53ed><8033><6a5f>", "earbuds"}

\* the queries of SpecCompound: empty, one attribute ("waterproof"), two
\* attributes ("waterproof noise-cancelling") and keywords of two categories
\* ("speaker chair": audio equipment and furniture)
CompoundQueries == {"", "<9632><6c34>", "<9632><6c34><964d><566a>", "<5587><53ed><6905>"}

AllQueries == Queries \cup EdgeQueries \cup CompoundQueries

\* Scores are ten-thousandths.
Thresholds == {2000, 5000}

\* <<bm25_weight, vector_weight>> in hundredths: the weights app.py passes, a
\* pair that does not sum to 1, and a pair that switches the lexical path off.
Weights == {<<35, 65>>, <<100, 50>>, <<0, 100>>}

BoostLists == {<<>>, <<"<5587><53ed>", "<9632><6c34>">>}

MaxLimit == 2

\* the number of documents the retrievers return in one call, both together
MaxRetrieved == 3

\* Similarities the vector store reports, by rank (non-increasing).
ScoreProfiles == { <<8000, 8000, 3200, 1000>> }

\* the similarities that occur
Scores == UNION {{p[i] : i \in DOMAIN p} : p \in ScoreProfiles}

\* sequences of n distinct documents of the set D
DocSeqs(D, n) == {s \in [1..n -> D] : \A i, j \in 1..n : i # j => s[i] # s[j]}

\* what similarity_search_with_relevance_scores may rank: (doc, score) pairs
VecRankingsOf(D) ==
  UNION {{[i \in 1..n |-> [doc |-> s[i], score |-> p[i]]] : s \in DocSeqs(D, n), p \in ScoreProfiles}
         : n \in 0..MaxRetrieved}

VecRankings == VecRankingsOf(Catalogue)

\* what the BM25 retriever may return
Bm25RankingsOf(D) == UNION {DocSeqs(D, n) : n \in 0..MaxRetrieved}

Bm25Rankings == Bm25RankingsOf(Catalogue)

\* Python seq[:n]
SliceTo(seq, n) ==
  IF n >= 0 THEN SubSeq(seq, 1, Min(n, Len(seq)))
  ELSE SubSeq(seq, 1, Max(0, Len(seq) + n))

(***************************************************************************)
(* The per-document analysis, tabulated over the catalogue and the queries *)
(***************************************************************************)
\* the function f as an explicit table, its values computed once
Tabulated(f) == f @@ [x \in {} |-> 0]

TargetListsTable == Tabulated([q \in AllQueries |-> infer_target_categories_from_query(q)])

TargetLists == UNION {TargetListsTable[q] : q \in AllQueries} \cup {<<>>}

\* a query with the target_categories of a call: the list inferred, or []
\* when enable_category_weight is off
QueryCases == {x \in AllQueries \X TargetLists : x[2] = <<>> \/ x[2] \in TargetListsTable[x[1]]}

\* Where the function raises, the table holds a value that is never read:
\* the loops test the ...Raises predicate first.
MatchingTable ==
  Tabulated([d \in DocIds, tc \in TargetLists |->
               IF CategoryMatchRaises(Meta(d), tc) THEN FALSE
               ELSE is_product_matching_categories(Meta(d), tc)])

MatchScoreTable ==
  Tabulated([d \in DocIds, tc \in TargetLists |->
               IF CategoryMatchRaises(Meta(d), tc) THEN <<0, 1>>
               ELSE compute_category_match_score(Meta(d), tc)])

\* category = metadata.get("category", "")
CategoryOf(d) == GetD(Meta(d), "category", Str(""))

CategoryWeightTable ==
  Tabulated([d \in DocIds, tc \in TargetLists |->
               IF CategoryWeightRaises(CategoryOf(d), tc) THEN <<1, 1>>
               ELSE calculate_category_weight(StrOf(CategoryOf(d)), tc)])

AttrScoreTable ==
  Tabulated([d \in DocIds, q \in AllQueries |->
               IF AttributeMatchRaises(Meta(d)) THEN <<1, 2>>
               ELSE compute_attribute_match_score(Meta(d), q)])

TypeScoreTable ==
  Tabulated([d \in DocIds, q \in AllQueries |->
               IF ProductTypeMatchRaises(Meta(d)) THEN 6
               ELSE compute_product_type_match_score(Meta(d), q)])

BoostWords == UNION {{b[i] : i \in 1..Len(b)} : b \in BoostLists}

\* keyword.lower() in (doc.page_content + product_name).lower()
BoostHitTable ==
  Tabulated([d \in DocIds, kw \in BoostWords |->
               Contains(Lower(kw), Lower(Documents[d].page_content \o DisplayName(Meta(d))))])

(***************************************************************************)
(* The re-weighting steps shared by the two entry points.  A multiplier is *)
(* a fraction <<p, q>>.                                                    *)
(***************************************************************************)

\* match_score < 0.12
MatchTooLow(m) == 100 * m[1] < 12 * m[2]

\* 1.0 + alpha * match_score, alpha = 0.45
MatchBoost(m) == <<100 * m[2] + 45 * m[1], 100 * m[2]>>

\* a boost that starts at attr_score = 0.5
AttrBoost_inclusive(a) ==
  IF 2 * a[1] >= a[2] THEN <<10 * a[2] + 3 * a[1], 10 * a[2]>> ELSE <<1, 1>>

\* attr_score > 0.5 ? 1.0 + beta * attr_score : 1, beta = 0.3
AttrBoost(a) == IF 2 * a[1] > a[2] THEN <<10 * a[2] + 3 * a[1], 10 * a[2]>> ELSE <<1, 1>>

\* type_score >= 1.0 ? 1.5 : type_score < 0.5 ? 0.5 : 1
TypeBoost(t) == IF t >= 10 THEN <<3, 2>> ELSE IF t < 5 THEN <<1, 2>> ELSE <<1, 1>>

\* the product of two multipliers
Times(a, b) == <<a[1] * b[1], a[2] * b[2]>>

\* a boost applied once when any keyword is found
KeywordBoost_once(final_score, boost_keywords, doc) ==
  IF \E j \in 1..Len(boost_keywords) : BoostHitTable[doc, boost_keywords[j]]
  THEN Min1(FracMul(final_score, 115, 100))
  ELSE final_score

\* the loop over boost_keywords: each keyword found multiplies by 1.15, the
\* running value capped at 1.0 each time
RECURSIVE KeywordBoost(_, _, _)
KeywordBoost(final_score, boost_keywords, doc) ==
  IF boost_keywords = <<>> THEN final_score
  ELSE KeywordBoost(
         IF BoostHitTable[doc, Head(boost_keywords)]
         THEN Min1(FracMul(final_score, 115, 100))
         ELSE final_score,
         Tail(boost_keywords), doc)

\* the rounding without the cap
ReportedScore_noclamp(final_score) == Round4(final_score)

\* round(min(final_score, 1.0), 4)
ReportedScore(final_score) == Round4(Min1(final_score))

(***************************************************************************)
(* semantic_search_products                                                *)
(***************************************************************************)

\* The category factor of one candidate (lines 352-363): the category
\* weight times the match boost.
SemanticCategoryFactor(doc, tc) ==
  Times(CategoryWeightTable[doc, tc], MatchBoost(MatchScoreTable[doc, tc]))

\* The entry appended for a candidate (lines 400-407), with the weighted
\* score and the keyword-boosted score it was computed from.
SemanticEntry(doc, score, cat, attr, type, weighted, final) ==
  [kind |-> "append", doc |-> doc, similarity_score |-> ReportedScore(final),
   score |-> score, cat |-> cat, attr |-> attr, type |-> type,
   weighted |-> weighted, boosted |-> final]

\* The score of a candidate that passed the filters (lines 387-398).
SemanticBoosted(doc, score, boost_keywords, cat, attr, type, weighted) ==
  SemanticEntry(doc, score, cat, attr, type, weighted,
                KeywordBoost(weighted, boost_keywords, doc))

SemanticWeighted(doc, score, boost_keywords, cat, attr, type) ==
  SemanticBoosted(doc, score, boost_keywords, cat, attr, type,
                  FracMul(FracMul(FracMul(Frac(score, Base), cat[1], cat[2]),
                                  attr[1], attr[2]), type[1], type[2]))

\* One iteration of the loop over the retriever's results: "skip" for a
\* `continue`, "raise" when scoring the candidate raises, otherwise the
\* entry appended to output.  An entry records, next to the document and the
\* score it carries, the retriever similarity it started from, the
\* multipliers applied (cat, attr, type) and the value before and after the
\* loop over boost_keywords (weighted, boosted).
SemanticCandidate(doc, score, query, tc, score_threshold, product_only, boost_keywords, enable) ==
  LET metadata  == Meta(doc)
      filtering == enable /\ tc # <<>>
  IN  IF score < score_threshold THEN [kind |-> "skip"]
      ELSE IF product_only /\ ~(LET s == GetD(metadata, "source", Str(""))
                                IN  s.t = "str" /\ s.v = "product_db")
           THEN [kind |-> "skip"]
      ELSE IF filtering /\ CategoryMatchRaises(metadata, tc) THEN [kind |-> "raise"]
      ELSE IF filtering /\ ~MatchingTable[doc, tc] THEN [kind |-> "skip"]
      ELSE IF filtering /\ MatchTooLow(MatchScoreTable[doc, tc]) THEN [kind |-> "skip"]
      ELSE IF filtering /\ CategoryWeightRaises(CategoryOf(doc), tc) THEN [kind |-> "raise"]
      ELSE IF AttributeMatchRaises(metadata) \/ ProductTypeMatchRaises(metadata)
           THEN [kind |-> "raise"]
      ELSE SemanticWeighted(doc, score, boost_keywords,
                            IF filtering THEN SemanticCategoryFactor(doc, tc) ELSE <<1, 1>>,
                            AttrBoost(AttrScoreTable[doc, query]),
                            TypeBoost(TypeScoreTable[doc, query]))

\* The loop body, tabulated over the documents, similarities and arguments
\* that occur.
SemanticCandidateTable ==
  Tabulated(
    [doc \in DocIds, score \in Scores, qc \in QueryCases, score_threshold \in Thresholds,
     product_only \in {TRUE}, boost_keywords \in BoostLists, enable \in BOOLEAN |->
       SemanticCandidate(doc, score, qc[1], qc[2], score_threshold, product_only,
                         boost_keywords, enable)])

\* The loop with its `break` once output holds `limit` entries.  The value
\* is [raised, output]: raised when scoring a candidate raised, which ends
\* the loop and leaves the try block.
RECURSIVE SemanticLoop(_, _, _, _, _, _, _, _, _)
SemanticLoop(results, output, limit, query, tc, score_threshold, product_only, boost_keywords, enable) ==
  IF results = <<>> THEN [raised |-> FALSE, output |-> output]
  ELSE LET c == SemanticCandidateTable[Head(results).doc, Head(results).score, <<query, tc>>,
                                       score_threshold, product_only, boost_keywords, enable]
       IN  IF c.kind = "raise" THEN [raised |-> TRUE, output |-> <<>>]
           ELSE IF c.kind = "skip"
           THEN SemanticLoop(Tail(results), output, limit, query, tc, score_threshold,
                             product_only, boost_keywords, enable)
           ELSE IF Len(output) + 1 >= limit
           THEN [raised |-> FALSE, output |-> Append(output, c)]
           ELSE SemanticLoop(Tail(results), Append(output, c), limit, query, tc,
                             score_threshold, product_only, boost_keywords, enable)

\* an insertion that puts an entry before the entries of equal score
RECURSIVE InsertDesc_unstable(_, _)
InsertDesc_unstable(sorted, e) ==
  IF sorted = <<>> THEN <<e>>
  ELSE IF Head(sorted).similarity_score > e.similarity_score
       THEN <<Head(sorted)>> \o InsertDesc_unstable(Tail(sorted), e)
       ELSE <<e>> \o sorted

\* list.sort(key = similarity_score, reverse = True): a stable sort, entries
\* of equal score keep their order.
RECURSIVE InsertDesc(_, _)
InsertDesc(sorted, e) ==
  IF sorted = <<>> THEN <<e>>
  ELSE IF Head(sorted).similarity_score >= e.similarity_score
       THEN <<Head(sorted)>> \o InsertDesc(Tail(sorted), e)
       ELSE <<e>> \o sorted

RECURSIVE SortDesc(_)
SortDesc(seq) ==
  IF seq = <<>> THEN <<>>
  ELSE InsertDesc(SortDesc(SubSeq(seq, 1, Len(seq) - 1)), seq[Len(seq)])

\* a pass that keeps every entry
Deduplicate_keepall(output, seen_product_ids) == output

\* Keep the first entry of every product_id; entries without product_id are
\* all kept.
RECURSIVE Deduplicate(_, _)
Deduplicate(output, seen_product_ids) ==
  IF output = <<>> THEN <<>>
  ELSE LET product_id == ProductId(Head(output).doc)
       IN  IF product_id # "" /\ product_id \notin seen_product_ids
           THEN <<Head(output)>> \o Deduplicate(Tail(output), seen_product_ids \cup {product_id})
           ELSE IF product_id = ""
           THEN <<Head(output)>> \o Deduplicate(Tail(output), seen_product_ids)
           ELSE Deduplicate(Tail(output), seen_product_ids)

\* The loop over the first search_limit entries of what the store ranks.
SemanticScoring(store, query, tc, limit, score_threshold, product_only, boost_keywords, enable) ==
  SemanticLoop(SliceTo(store.ranking, IF product_only THEN limit * 3 ELSE limit),
               <<>>, limit, query, tc, score_threshold, product_only, boost_keywords, enable)

\* The list `output` as the loop leaves it, before sorting.
SemanticOutput(store, query, tc, limit, score_threshold, product_only, boost_keywords, enable) ==
  SemanticScoring(store, query, tc, limit, score_threshold, product_only,
                  boost_keywords, enable).output

\* The end of the try block (lines 414-429): sort, deduplicate, slice.
SemanticFinish(store, limit, scoring) ==
  IF store.vec = "raise" \/ scoring.raised
  THEN [raised |-> TRUE, value |-> <<>>]
  ELSE [raised |-> FALSE,
        value |-> SliceTo(Deduplicate(SortDesc(scoring.output), {}), limit)]

\* The try block: [raised, value].  store is [vec |-> "ok" | "raise",
\* ranking |-> what the vector store ranks]; the store raises, or scoring a
\* candidate raises, or the block returns deduplicated_output[:limit].
SemanticTry(store, query, tc, limit, score_threshold, product_only, boost_keywords, enable) ==
  SemanticFinish(store, limit,
                 SemanticScoring(store, query, tc, limit, score_threshold, product_only,
                                 boost_keywords, enable))

\* a handler that lets the exception leave the function
SemanticExcept_reraise(try) == try

\* `except Exception: return []`: what leaves the function, [raised, value]
SemanticExcept(try) ==
  [raised |-> FALSE, value |-> IF try.raised THEN <<>> ELSE try.value]

\* The call as its caller sees it.
SemanticOutcome(store, query, tc, limit, score_threshold, product_only, boost_keywords, enable) ==
  SemanticExcept(SemanticTry(store, query, tc, limit, score_threshold, product_only,
                             boost_keywords, enable))

\* The list the function returns.
semantic_search_products(store, query, tc, limit, score_threshold, product_only, boost_keywords, enable) ==
  SemanticOutcome(store, query, tc, limit, score_threshold, product_only,
                  boost_keywords, enable).value

(***************************************************************************)
(* hybrid_search_products                                                  *)
(***************************************************************************)

\* metadata.get('source') != 'product_db'
NotProductSource(metadata) ==
  LET s == Get(metadata, "source") IN ~(s.t = "str" /\ s.v = "product_db")

\* index of product_id in merged_results, 0 if absent
MergedIndex(merged, product_id) ==
  IF \E k \in 1..Len(merged) : merged[k].product_id = product_id
  THEN CHOOSE k \in 1..Len(merged) : merged[k].product_id = product_id
  ELSE 0

\* The loop over bm25_results_raw[:limit*2].  The document at 0-based rank i
\* of the n documents the retriever returned has bm25 score 1 - i/(n+1),
\* kept as the numerator n+1-i over the denominator n+1.
RECURSIVE MergeBm25(_, _, _, _, _)
MergeBm25(docs, i, n, merged, product_only) ==
  IF docs = <<>> THEN merged
  ELSE LET doc        == Head(docs)
           product_id == ProductId(doc)
           bm25_score == n + 1 - i
           k          == MergedIndex(merged, product_id)
           next       ==
             IF product_only /\ NotProductSource(Meta(doc)) THEN merged
             ELSE IF product_id = "" THEN merged
             ELSE IF k = 0
                  THEN Append(merged, [product_id |-> product_id, doc |-> doc,
                                       bm25_score |-> bm25_score, vector_score |-> 0])
                  ELSE [merged EXCEPT ![k].bm25_score = Max(@, bm25_score)]
       IN  MergeBm25(Tail(docs), i + 1, n, next, product_only)

\* a loop that keeps the vector score of the first occurrence of a product
RECURSIVE MergeVector_first(_, _)
MergeVector_first(vector_results, merged) ==
  IF vector_results = <<>> THEN merged
  ELSE LET r          == Head(vector_results)
           product_id == ProductId(r.doc)
           k          == MergedIndex(merged, product_id)
           next       ==
             IF product_id = "" THEN merged
             ELSE IF k = 0
                  THEN Append(merged, [product_id |-> product_id, doc |-> r.doc,
                                       bm25_score |-> 0, vector_score |-> r.similarity_score])
                  ELSE IF merged[k].vector_score = 0
                       THEN [merged EXCEPT ![k].vector_score = r.similarity_score]
                       ELSE merged
       IN  MergeVector_first(Tail(vector_results), next)

\* The loop over vector_results[:limit*2].
RECURSIVE MergeVector(_, _)
MergeVector(vector_results, merged) ==
  IF vector_results = <<>> THEN merged
  ELSE LET r          == Head(vector_results)
           product_id == ProductId(r.doc)
           k          == MergedIndex(merged, product_id)
           next       ==
             IF product_id = "" THEN merged
             ELSE IF k = 0
                  THEN Append(merged, [product_id |-> product_id, doc |-> r.doc,
                                       bm25_score |-> 0, vector_score |-> r.similarity_score])
                  ELSE [merged EXCEPT ![k].vector_score = Max(@, r.similarity_score)]
       IN  MergeVector(Tail(vector_results), next)

\* the plain average of the two scores, whatever the weights
FusedBase_average(bm25_score, vector_score, n, weights) ==
  << bm25_score * Base + vector_score * (n + 1), 2 * Base * (n + 1) >>

\* bm25_score * bm25_weight + vector_score * vector_weight as a fraction of
\* integers <<numerator, denominator>>; weights are hundredths, n is the
\* number of documents the BM25 retriever returned.
FusedBase(bm25_score, vector_score, n, weights) ==
  << bm25_score * weights[1] * Base + vector_score * weights[2] * (n + 1),
     100 * Base * (n + 1) >>

\* a fusion loop without the category filter
HybridCategoryDrop_never(doc, tc) == FALSE

\* The category filter of the fusion loop: the item fails the boolean match
\* or its match score is below 0.12.
HybridCategoryDrop(doc, tc) ==
  tc # <<>> /\ (~MatchingTable[doc, tc] \/ MatchTooLow(MatchScoreTable[doc, tc]))

\* The entry appended for a fused candidate (lines 596-612), unless its
\* final score is under the threshold (lines 592-594).
HybridEntry(data, n, score_threshold, base, cat, attr, type, final) ==
  IF FracCmpUnits(final, score_threshold) < 0 THEN [kind |-> "skip"]
  ELSE [kind |-> "append", doc |-> data.doc,
        similarity_score |-> Round4(final),
        bm25_component   |-> Round4(Frac(data.bm25_score, n + 1)),
        vector_component |-> data.vector_score,
        base |-> base, cat |-> cat, attr |-> attr, type |-> type]

\* The final score of a fused candidate (lines 569-590).
HybridWeighted(data, n, score_threshold, base, cat, attr, type) ==
  HybridEntry(data, n, score_threshold, base, cat, attr, type,
              FracMul(FracMul(FracMul(Frac(base[1], base[2]), cat[1], cat[2]),
                              attr[1], attr[2]), type[1], type[2]))

\* One iteration of the loop over merged_results: "skip" when the item is
\* filtered or below the threshold, "raise" when scoring it raises,
\* otherwise the entry appended.  An entry
\* records, next to what the result carries, the fused base and the
\* multipliers applied to it (cat, attr, type).
HybridCandidate(data, n, query, tc, score_threshold, weights) ==
  IF tc # <<>> /\ CategoryMatchRaises(Meta(data.doc), tc) THEN [kind |-> "raise"]
  ELSE IF HybridCategoryDrop(data.doc, tc) THEN [kind |-> "skip"]
  ELSE IF AttributeMatchRaises(Meta(data.doc)) \/ ProductTypeMatchRaises(Meta(data.doc))
       THEN [kind |-> "raise"]
  ELSE HybridWeighted(data, n, score_threshold,
                      FusedBase(data.bm25_score, data.vector_score, n, weights),
                      IF tc # <<>> THEN MatchBoost(MatchScoreTable[data.doc, tc])
                                   ELSE <<1, 1>>,
                      AttrBoost(AttrScoreTable[data.doc, query]),
                      TypeBoost(TypeScoreTable[data.doc, query]))

\* the scores the vector path can hand to the fusion for the product of
\* doc under the query case qc, and 0.0
VectorScoresOf(doc, qc) ==
  {0} \cup {c.similarity_score :
              c \in {x \in {SemanticCandidate(d, score, qc[1], qc[2], score_threshold,
                                               TRUE, <<>>, enable) :
                               d \in {e \in DocIds : ProductId(e) = ProductId(doc)},
                               score \in Scores, score_threshold \in Thresholds,
                               enable \in BOOLEAN} :
                      x.kind = "append"}}

\* a document with a query case of the same specification
DocCases ==
  {x \in DocIds \X QueryCases :
     \/ x[1] \in Catalogue /\ x[2][1] \in Queries
     \/ x[1] \in CompoundCatalogue /\ x[2][1] \in CompoundQueries
     \/ x[1] \in EdgeCatalogue /\ x[2][1] \in EdgeQueries}

\* the BM25 scores <<numerator, n>> of a call in which the retriever returned
\* n documents, and 0.0
Bm25Scores == {x \in (0..(MaxRetrieved + 1)) \X (0..MaxRetrieved) : x[1] = 0 \/ (2 <= x[1] /\ x[1] <= x[2] + 1)}

\* the arguments the fusion loop body can meet:
\* <<doc, bm25, vector_score, qc, score_threshold, weights>>
HybridCases ==
  UNION {{<<x[1], bm25, vector_score, x[2], score_threshold, weights>> :
            bm25 \in Bm25Scores, vector_score \in VectorScoresOf(x[1], x[2]),
            score_threshold \in Thresholds, weights \in Weights} : x \in DocCases}

\* The fusion loop body, tabulated.
HybridCandidateTable ==
  Tabulated(
    [x \in HybridCases |->
       HybridCandidate([doc |-> x[1], bm25_score |-> x[2][1], vector_score |-> x[3]],
                       x[2][2], x[4][1], x[4][2], x[5], x[6])])

\* The loop over merged_results: [raised, output].
RECURSIVE HybridLoop(_, _, _, _, _, _, _)
HybridLoop(merged, final_results, n, query, tc, score_threshold, weights) ==
  IF merged = <<>> THEN [raised |-> FALSE, output |-> final_results]
  ELSE LET c == HybridCandidateTable[<<Head(merged).doc, <<Head(merged).bm25_score, n>>,
                                       Head(merged).vector_score, <<query, tc>>,
                                       score_threshold, weights>>]
       IN  IF c.kind = "raise" THEN [raised |-> TRUE, output |-> <<>>]
           ELSE HybridLoop(Tail(merged),
                           IF c.kind = "skip" THEN final_results ELSE Append(final_results, c),
                           n, query, tc, score_threshold, weights)

\* The call of semantic_search_products inside the fusion, as the fusion
\* sees it.
HybridVectorOutcome(store, query, tc, limit, score_threshold, product_only, enable) ==
  SemanticOutcome(store, query, tc, limit * 3, score_threshold, product_only, <<>>, enable)

\* The list the fusion gets from semantic_search_products.
HybridVectorResults(store, query, tc, limit, score_threshold, product_only, enable) ==
  HybridVectorOutcome(store, query, tc, limit, score_threshold, product_only, enable).value

\* a merge that also takes the vector results without product_id
MergedResults_keepall(store, vector_results, limit, product_only) ==
  LET anon == SelectSeq(SliceTo(vector_results, limit * 2),
                        LAMBDA r : ProductId(r.doc) = "")
  IN  MergeVector(SliceTo(vector_results, limit * 2),
                  MergeBm25(SliceTo(store.lexical, limit * 2), 0, Len(store.lexical),
                            <<>>, product_only))
        \o [i \in 1..Len(anon) |->
              [product_id |-> "", doc |-> anon[i].doc, bm25_score |-> 0,
               vector_score |-> anon[i].similarity_score]]

\* merged_results after both loops, in insertion order.
MergedResults(store, vector_results, limit, product_only) ==
  MergeVector(SliceTo(vector_results, limit * 2),
              MergeBm25(SliceTo(store.lexical, limit * 2), 0, Len(store.lexical),
                        <<>>, product_only))

\* The except handler of the fusion (lines 618-626): the answer of
\* semantic_search_products with the caller's limit.
HybridFallback(fallback) ==
  [path |-> IF fallback.raised THEN "raised" ELSE "fallback",
   result |-> fallback.value,
   vector_results |-> <<>>]

\* a fusion that scores what it has when a path failed
HybridFinish_nofallback(store, query, tc, limit, score_threshold, product_only, enable, vector, fusion) ==
  [path |-> "fused",
   result |-> SliceTo(SortDesc(fusion.output), limit),
   vector_results |-> vector.value]

\* The end of the fusion (lines 614-616), or the handler when the BM25
\* section, the vector call or a candidate raised.
HybridFinish(store, query, tc, limit, score_threshold, product_only, enable, vector, fusion) ==
  IF store.bm25 # "ok" \/ vector.raised \/ fusion.raised
  THEN HybridFallback(SemanticOutcome(store, query, tc, limit, score_threshold,
                                      product_only, <<>>, enable))
  ELSE [path |-> "fused",
        result |-> SliceTo(SortDesc(fusion.output), limit),
        vector_results |-> vector.value]

\* The merge and the scoring loop over what the two paths returned.
HybridFusion(store, query, tc, limit, score_threshold, product_only, weights, enable, vector) ==
  HybridFinish(store, query, tc, limit, score_threshold, product_only, enable, vector,
               HybridLoop(MergedResults(store, vector.value, limit, product_only),
                          <<>>, Len(store.lexical), query, tc, score_threshold, weights))

\* store adds to the vector store: bm25 |-> "ok" (the BM25 retriever is
\* built and returns store.lexical), "nodocs" (all_docs is empty, so that
\* bm25_results_raw is never bound and reading it raises) or "raise" (the
\* import, the index or the retriever raises).  Every exception falls back
\* to semantic_search_products.  The value is
\* [path, result, vector_results].
\* path is "raised" when an exception leaves the function.
hybrid_search_products(store, query, tc, limit, score_threshold, product_only, weights, enable) ==
  IF store.vec = "none"
  THEN [path |-> "none", result |-> <<>>, vector_results |-> <<>>]
  ELSE HybridFusion(store, query, tc, limit, score_threshold, product_only, weights, enable,
                    HybridVectorOutcome(store, query, tc, limit, score_threshold,
                                        product_only, enable))

(***************************************************************************)
(* The state machine: a caller issues ranking calls one after the other.   *)
(***************************************************************************)
VARIABLES
  pc,              \* "idle", "running" or "returned"
  call,            \* the arguments of the last call and the state of the stores
  result,          \* the list the last call returned
  path,            \* how it was produced: "semantic", "fused", "fallback", "none",
                   \* or "raised" when an exception left the function
  vector_results   \* in a fused hybrid call, the list semantic_search_products gave

vars == <<pc, call, result, path, vector_results>>

NoCall == [fn |-> "none"]

Init ==
  /\ pc = "idle"
  /\ call = NoCall
  /\ result = <<>>
  /\ path = "none"
  /\ vector_results = <<>>

VecModes  == {"ok", "raise", "none"}
Bm25Modes == {"ok", "nodocs", "raise"}

\* The stores over the documents D as a semantic call meets them: vec is
\* "none" when vectorstore_updater is None, "raise" when the store raises.
SemanticStoresOf(D) ==
  {[vec |-> "ok", ranking |-> r] : r \in VecRankingsOf(D)}
    \cup {[vec |-> m, ranking |-> <<>>] : m \in VecModes \ {"ok"}}

SemanticStores == SemanticStoresOf(Catalogue)

\* The stores over the documents D as a hybrid call meets them.
HybridStoresOf(D) ==
  {[vec |-> "ok", ranking |-> x[1], bm25 |-> "ok", lexical |-> x[2]] :
      x \in {y \in VecRankingsOf(D) \X Bm25RankingsOf(D) :
                Len(y[1]) + Len(y[2]) <= MaxRetrieved}}
    \cup {[vec |-> "ok", ranking |-> r, bm25 |-> m, lexical |-> <<>>] :
      r \in VecRankingsOf(D), m \in Bm25Modes \ {"ok"}}
    \cup {[vec |-> "raise", ranking |-> <<>>, bm25 |-> "ok", lexical |-> l] :
      l \in Bm25RankingsOf(D)}
    \cup {[vec |-> m, ranking |-> <<>>, bm25 |-> b, lexical |-> <<>>] :
      m \in VecModes \ {"ok"}, b \in Bm25Modes \ {"ok"}}

HybridStores == HybridStoresOf(Catalogue)

\* the limits of SpecEdge: a negative one next to those of Spec
EdgeLimits == {-1} \cup (1..MaxLimit)

\* The caller issues semantic_search_products(...).
CallSemantic ==
  /\ pc = "idle"
  /\ \E store \in SemanticStores, query \in Queries, limit \in 1..MaxLimit,
        score_threshold \in Thresholds, boost_keywords \in BoostLists, enable \in BOOLEAN :
       \E tc \in (IF enable THEN TargetListsTable[query] ELSE {<<>>}) :
          call' = [fn |-> "semantic", store |-> store, query |-> query, tc |-> tc,
                   limit |-> limit, score_threshold |-> score_threshold,
                   product_only |-> TRUE, boost_keywords |-> boost_keywords,
                   enable |-> enable, weights |-> <<0, 0>>]
  /\ pc' = "running"
  /\ UNCHANGED <<result, path, vector_results>>

\* The caller issues hybrid_search_products(...).
CallHybrid ==
  /\ pc = "idle"
  /\ \E store \in HybridStores, query \in Queries, limit \in 1..MaxLimit,
        score_threshold \in Thresholds, weights \in Weights :
       \E tc \in TargetListsTable[query] :
          call' = [fn |-> "hybrid", store |-> store, query |-> query, tc |-> tc,
                   limit |-> limit, score_threshold |-> score_threshold,
                   product_only |-> TRUE, boost_keywords |-> <<>>,
                   enable |-> TRUE, weights |-> weights]
  /\ pc' = "running"
  /\ UNCHANGED <<result, path, vector_results>>

\* The caller issues semantic_search_products(...) with the inputs of
\* SpecEdge.
CallSemanticEdge ==
  /\ pc = "idle"
  /\ \E store \in SemanticStoresOf(EdgeCatalogue), query \in EdgeQueries, limit \in EdgeLimits,
        score_threshold \in Thresholds, boost_keywords \in BoostLists, enable \in BOOLEAN :
       \E tc \in (IF enable THEN TargetListsTable[query] ELSE {<<>>}) :
          call' = [fn |-> "semantic", store |-> store, query |-> query, tc |-> tc,
                   limit |-> limit, score_threshold |-> score_threshold,
                   product_only |-> TRUE, boost_keywords |-> boost_keywords,
                   enable |-> enable, weights |-> <<0, 0>>]
  /\ pc' = "running"
  /\ UNCHANGED <<result, path, vector_results>>

\* The caller issues hybrid_search_products(...) with the inputs of SpecEdge.
CallHybridEdge ==
  /\ pc = "idle"
  /\ \E store \in HybridStoresOf(EdgeCatalogue), query \in EdgeQueries, limit \in EdgeLimits,
        score_threshold \in Thresholds, weights \in Weights :
       \E tc \in TargetListsTable[query] :
          call' = [fn |-> "hybrid", store |-> store, query |-> query, tc |-> tc,
                   limit |-> limit, score_threshold |-> score_threshold,
                   product_only |-> TRUE, boost_keywords |-> <<>>,
                   enable |-> TRUE, weights |-> weights]
  /\ pc' = "running"
  /\ UNCHANGED <<result, path, vector_results>>

\* semantic_search_products runs to its return.
SemanticSearch ==
  /\ pc = "running"
  /\ call.fn = "semantic"
  /\ \E r \in {SemanticOutcome(call.store, call.query, call.tc, call.limit,
                                 call.score_threshold, call.product_only,
                                 call.boost_keywords, call.enable)} :
        /\ result' = IF call.store.vec = "none" THEN <<>> ELSE r.value
        /\ path' = IF call.store.vec = "none" THEN "none"
                   ELSE IF r.raised THEN "raised"
                   ELSE IF call.store.vec = "ok" THEN "semantic" ELSE "none"
  /\ vector_results' = <<>>
  /\ pc' = "returned"
  /\ UNCHANGED call

\* hybrid_search_products runs to its return.
HybridSearch ==
  /\ pc = "running"
  /\ call.fn = "hybrid"
  /\ \E r \in {hybrid_search_products(call.store, call.query, call.tc, call.limit,
                                        call.score_threshold, call.product_only,
                                        call.weights, call.enable)} :
        /\ result' = r.result
        /\ path' = r.path
        /\ vector_results' = r.vector_results
  /\ pc' = "returned"
  /\ UNCHANGED call

\* The caller takes the list; the next call starts afresh.
Return ==
  /\ pc = "returned"
  /\ pc' = "idle"
  /\ call' = NoCall
  /\ result' = <<>>
  /\ path' = "none"
  /\ vector_results' = <<>>

Next == CallSemantic \/ CallHybrid \/ SemanticSearch \/ HybridSearch \/ Return

Spec == Init /\ [][Next]_vars

\* The same caller with the inputs of SpecEdge: malformed metadata, a negative
\* limit, blank queries and queries naming several product-type keywords.
NextEdge == CallSemanticEdge \/ CallHybridEdge \/ SemanticSearch \/ HybridSearch \/ Return

SpecEdge == Init /\ [][NextEdge]_vars

\* The caller issues semantic_search_products(...) with the queries of
\* SpecCompound.
CallSemanticCompound ==
  /\ pc = "idle"
  /\ \E store \in SemanticStoresOf(CompoundCatalogue), query \in CompoundQueries, limit \in 1..MaxLimit,
        score_threshold \in Thresholds, boost_keywords \in BoostLists, enable \in BOOLEAN :
       \E tc \in (IF enable THEN TargetListsTable[query] ELSE {<<>>}) :
          call' = [fn |-> "semantic", store |-> store, query |-> query, tc |-> tc,
                   limit |-> limit, score_threshold |-> score_threshold,
                   product_only |-> TRUE, boost_keywords |-> boost_keywords,
                   enable |-> enable, weights |-> <<0, 0>>]
  /\ pc' = "running"
  /\ UNCHANGED <<result, path, vector_results>>

\* The caller issues hybrid_search_products(...) with the queries of
\* SpecCompound.
CallHybridCompound ==
  /\ pc = "idle"
  /\ \E store \in HybridStoresOf(CompoundCatalogue), query \in CompoundQueries, limit \in 1..MaxLimit,
        score_threshold \in Thresholds, weights \in Weights :
       \E tc \in TargetListsTable[query] :
          call' = [fn |-> "hybrid", store |-> store, query |-> query, tc |-> tc,
                   limit |-> limit, score_threshold |-> score_threshold,
                   product_only |-> TRUE, boost_keywords |-> <<>>,
                   enable |-> TRUE, weights |-> weights]
  /\ pc' = "running"
  /\ UNCHANGED <<result, path, vector_results>>

\* The same caller with queries that name several attributes or several
\* categories, over stores that hold a document with malformed metadata.
NextCompound ==
  CallSemanticCompound \/ CallHybridCompound \/ SemanticSearch \/ HybridSearch \/ Return

SpecCompound == Init /\ [][NextCompound]_vars

(***************************************************************************)
(* The scoring helpers called on their own: every call applies one helper  *)
(* to arguments of the sets below and returns its value.                   *)
(***************************************************************************)
\* category names a target list may hold: four keys of CATEGORY_KEYWORDS
\* (audio equipment, home appliances, home entertainment, furniture) and
\* the name of the docstring's example that is no key ("outdoor use")
HelperCategoryNames ==
  {"<97f3><983b><8a2d><5099>", "<751f><6d3b><5bb6><96fb>", "<5bb6><5ead><5a1b><6a02>",
   "<5bb6><5177>", "<6236><5916><4f7f><7528>"}

\* the target lists of at most two names, in every order
HelperTargets ==
  UNION {ListsOf(S) : S \in {T \in SUBSET HelperCategoryNames : Cardinality(T) <= 2}}

\* values of product_category: empty, three keys of CATEGORY_KEYWORDS, a
\* sub-category of home appliances, "bluetooth speaker" and "projector"
HelperProductCategories ==
  {"", "<97f3><983b><8a2d><5099>", "<751f><6d3b><5bb6><96fb>", "<5bb6><5177>",
   "<751f><6d3b><5bb6><96fb>/<6e05><6f54>", "<85cd><7259><5587><53ed>",
   "<6295><5f71><6a5f>"}

\* the documents with well-formed metadata
HelperDocs == {d \in DocIds : ~CollectContentRaises(Meta(d)) /\ ~NotStr(CategoryOf(d))}

\* queries: empty, one attribute by its first or by a later keyword, in
\* lower and upper case, two attributes, a category keyword in three
\* spellings, a keyword of two categories ("smart"), two categories
HelperQueries ==
  {"", "<9632><6c34>", "waterproof", "WATERPROOF", "<9632><6c34><964d><566a>",
   "speaker", "Speaker", "SPEAKER", "<667a><80fd>", "<5587><53ed><6905>", "anc waterproof"}

\* calculate_category_weight(product_category, target_categories)
CallCategoryWeight ==
  /\ pc = "idle"
  /\ \E product_category \in HelperProductCategories, target_categories \in HelperTargets :
        /\ call' = [fn |-> "calculate_category_weight",
                    product_category |-> product_category,
                    target_categories |-> target_categories]
        /\ result' = calculate_category_weight(product_category, target_categories)
  /\ pc' = "returned"
  /\ path' = "helper"
  /\ UNCHANGED vector_results

\* is_product_matching_categories(metadata, target_categories) and
\* compute_category_match_score(metadata, target_categories), as the loops
\* call them one after the other
CallCategoryMatch ==
  /\ pc = "idle"
  /\ \E doc \in HelperDocs, target_categories \in HelperTargets :
        /\ call' = [fn |-> "category_match", doc |-> doc,
                    target_categories |-> target_categories]
        /\ result' = [matching |-> is_product_matching_categories(Meta(doc), target_categories),
                      match_score |-> compute_category_match_score(Meta(doc), target_categories)]
  /\ pc' = "returned"
  /\ path' = "helper"
  /\ UNCHANGED vector_results

\* compute_attribute_match_score(metadata, query)
CallAttributeMatch ==
  /\ pc = "idle"
  /\ \E doc \in HelperDocs, query \in HelperQueries :
        /\ call' = [fn |-> "compute_attribute_match_score", doc |-> doc, query |-> query]
        /\ result' = compute_attribute_match_score(Meta(doc), query)
  /\ pc' = "returned"
  /\ path' = "helper"
  /\ UNCHANGED vector_results

\* infer_target_categories_from_query(query): list(set) in one of its orders
CallInferCategories ==
  /\ pc = "idle"
  /\ \E query \in HelperQueries :
        /\ call' = [fn |-> "infer_target_categories_from_query", query |-> query]
        /\ result' \in infer_target_categories_from_query(query)
  /\ pc' = "returned"
  /\ path' = "helper"
  /\ UNCHANGED vector_results

\* two chunks of product P1 and one of product P2
MergeDocs == {1, 2, 3}

\* lists of result entries of the vector path, several chunks of a product
\* among them, in any order of scores
MergeVectorLists ==
  UNION {[1..n -> {[doc |-> d, similarity_score |-> s] : d \in MergeDocs, s \in {3200, 8000}}]
         : n \in 0..MaxRetrieved}

\* The fusion of hybrid_search_products merges the two paths by product_id
\* (lines 509-560).
MergeStep ==
  /\ pc = "idle"
  /\ \E lexical \in Bm25RankingsOf(MergeDocs), vector \in MergeVectorLists,
        limit \in 1..MaxLimit :
        /\ call' = [fn |-> "merge", store |-> [lexical |-> lexical], limit |-> limit,
                    product_only |-> TRUE]
        /\ vector_results' = vector
        /\ result' = MergedResults([lexical |-> lexical], vector, limit, TRUE)
  /\ pc' = "returned"
  /\ path' = "helper"

NextHelpers ==
  \/ CallCategoryWeight
  \/ CallCategoryMatch
  \/ CallAttributeMatch
  \/ CallInferCategories
  \/ MergeStep
  \/ Return

SpecHelpers == Init /\ [][NextHelpers]_vars

(***************************************************************************)
(* Properties                                                              *)
(***************************************************************************)
Returned == pc = "returned"

\* the results of a call that ran the loop of semantic_search_products:
\* a semantic call, or a hybrid call that fell back to it
FromSemantic == Returned /\ path \in {"semantic", "fallback"}

\* the results of a hybrid call that fused the two paths
Fused == Returned /\ path = "fused"

ResultIds == 1..Len(result)

PidOf(r) == ProductId(r.doc)

\* the value an entry had before clamping and rounding exceeds 1.0
\* (semantic entries: similarity times the multipliers)
SemanticRawAboveOne(r) ==
  r.score * r.cat[1] * r.attr[1] * r.type[1] > Base * r.cat[2] * r.attr[2] * r.type[2]

\* C1: every result of hybrid_search_products has 0 <= similarity_score <= 1.
C1_HybridScoreInUnitInterval ==
  (Returned /\ call.fn = "hybrid") =>
     \A i \in ResultIds : result[i].similarity_score >= 0 /\ result[i].similarity_score <= Base

\* C2: every result of semantic_search_products has 0 <= similarity_score <= 1,
\* whatever multipliers were applied.
C2_SemanticScoreInUnitInterval ==
  (Returned /\ call.fn = "semantic") =>
     \A i \in ResultIds : result[i].similarity_score >= 0 /\ result[i].similarity_score <= Base

\* a semantic result whose multipliers took the score above 1.0 before the clamp
C2_Witness ==
  /\ Returned /\ call.fn = "semantic"
  /\ \E i \in ResultIds : SemanticRawAboveOne(result[i]) /\ result[i].similarity_score = Base

\* C3: every result of hybrid_search_products has similarity_score >= score_threshold.
C3_HybridAboveThreshold ==
  (Returned /\ call.fn = "hybrid") =>
     \A i \in ResultIds : result[i].similarity_score >= call.score_threshold

\* C4: every result of semantic_search_products has similarity_score (the
\* final adjusted score) >= score_threshold.
C4_SemanticAboveThreshold ==
  (Returned /\ call.fn = "semantic") =>
     \A i \in ResultIds : result[i].similarity_score >= call.score_threshold

\* the list `output` the loop of semantic_search_products collected for the
\* results at hand
Collected ==
  SemanticOutput(call.store, call.query, call.tc, call.limit, call.score_threshold,
                 call.product_only, call.boost_keywords, call.enable)

\* the documents of product p among the first 2*limit the BM25 retriever
\* returned, as ranks
LexicalRanks(p) ==
  {k \in 1..Len(SliceTo(call.store.lexical, 2 * call.limit)) :
     /\ ProductId(call.store.lexical[k]) = p
     /\ ~(call.product_only /\ NotProductSource(Meta(call.store.lexical[k])))}

\* the entries of product p among the first 2*limit of the vector path
VectorRanks(p) ==
  {k \in 1..Len(SliceTo(vector_results, 2 * call.limit)) : PidOf(vector_results[k]) = p}

SetMax(S) == CHOOSE x \in S : \A y \in S : y <= x
SetMin(S) == CHOOSE x \in S : \A y \in S : x <= y

\* the lexical score of product p as the numerator over Len(lexical) + 1: the
\* best of its documents, 0 when it is absent from the path
LexicalScore(p) ==
  IF LexicalRanks(p) = {} THEN 0
  ELSE SetMax({Len(call.store.lexical) + 1 - (k - 1) : k \in LexicalRanks(p)})

\* the vector score of product p: the best of its entries, 0 when absent
VectorScore(p) ==
  IF VectorRanks(p) = {} THEN 0
  ELSE SetMax({vector_results[k].similarity_score : k \in VectorRanks(p)})

\* C5: no two results carry the same product_id, and the result kept for a
\* product is the highest-scoring of the candidates collected for it: of the
\* entries of `output` in semantic_search_products, of the scores seen on
\* each path in hybrid_search_products.  (A candidate without product_id
\* carries no identity; such candidates are not compared.)
C5_NoDuplicateProducts ==
  Returned =>
    /\ \A i, j \in ResultIds :
          (i # j /\ PidOf(result[i]) # "") => PidOf(result[i]) # PidOf(result[j])
    /\ FromSemantic =>
          \A i \in ResultIds : PidOf(result[i]) # "" =>
             /\ \E k \in 1..Len(Collected) : Collected[k] = result[i]
             /\ \A k \in 1..Len(Collected) :
                   PidOf(Collected[k]) = PidOf(result[i])
                      => Collected[k].similarity_score <= result[i].similarity_score
    /\ Fused =>
          \A i \in ResultIds :
             /\ result[i].bm25_component
                   = Round4(Frac(LexicalScore(PidOf(result[i])), Len(call.store.lexical) + 1))
             /\ result[i].vector_component = VectorScore(PidOf(result[i]))

\* two chunks of one product were collected, the later one scoring higher,
\* and the result holds the product once, with the higher score
C5_Witness ==
  /\ FromSemantic
  /\ Len(result) = 1
  /\ Len(Collected) = 2
  /\ PidOf(Collected[1]) = PidOf(Collected[2])
  /\ Collected[1].similarity_score < Collected[2].similarity_score
  /\ result[1] = Collected[2]

\* rank of a document in the vector store's ranking
VectorRankOf(doc) == CHOOSE k \in 1..Len(call.store.ranking) : call.store.ranking[k].doc = doc

\* where the fusion first saw product p: on the lexical path at its first
\* rank there, otherwise, after every lexical item, at its rank in the list
\* of the vector path
FirstSeen(p) ==
  IF LexicalRanks(p) # {} THEN SetMin(LexicalRanks(p))
  ELSE Len(call.store.lexical) + SetMin(VectorRanks(p))

\* C6: the returned list is ordered by non-increasing similarity_score, and
\* results of equal score keep their first-seen order.
C6_SortedStable ==
  /\ FromSemantic =>
        \A i, j \in ResultIds : i < j =>
           \/ result[i].similarity_score > result[j].similarity_score
           \/ /\ result[i].similarity_score = result[j].similarity_score
              /\ VectorRankOf(result[i].doc) < VectorRankOf(result[j].doc)
  /\ Fused =>
        \A i, j \in ResultIds : i < j =>
           \/ result[i].similarity_score > result[j].similarity_score
           \/ /\ result[i].similarity_score = result[j].similarity_score
              /\ FirstSeen(PidOf(result[i])) < FirstSeen(PidOf(result[j]))

\* a fused list in which an item first seen on the lexical path ties with,
\* and precedes, an item seen only on the vector path
C6_Witness ==
  /\ Fused
  /\ \E i, j \in ResultIds :
        /\ i < j
        /\ result[i].similarity_score = result[j].similarity_score
        /\ LexicalRanks(PidOf(result[i])) # {}
        /\ LexicalRanks(PidOf(result[j])) = {}

\* the product ids met on either path of the fusion
UnionProducts ==
  {ProductId(call.store.lexical[k]) :
      k \in 1..Len(SliceTo(call.store.lexical, 2 * call.limit))}
    \cup {PidOf(vector_results[k]) : k \in 1..Len(SliceTo(vector_results, 2 * call.limit))}

\* the document under which the fusion first met product p
FirstDoc(p) ==
  IF LexicalRanks(p) # {} THEN call.store.lexical[SetMin(LexicalRanks(p))]
  ELSE vector_results[SetMin(VectorRanks(p))].doc

\* what the fusion loop makes of product p given its two scores
Scored(p) ==
  HybridCandidateTable[<<FirstDoc(p), <<LexicalScore(p), Len(call.store.lexical)>>,
                         VectorScore(p), <<call.query, call.tc>>,
                         call.score_threshold, call.weights>>]

\* C7 (amended): in a fused call the base score of every result is
\* bm25_weight * L + vector_weight * V, with L the best lexical score of the
\* item and V the best score the vector path gave for it among the first
\* 2*limit candidates of each path, each 0 when the item is not among them;
\* and every item met there that passes the filters is returned unless
\* `limit` higher-ranked items fill the list.
C7_WeightedFusion ==
  Fused =>
    /\ \A i \in ResultIds :
          LET p == PidOf(result[i])
              n == Len(call.store.lexical)
          IN  /\ LexicalRanks(p) \cup VectorRanks(p) # {}
              /\ result[i].base
                    = << LexicalScore(p) * call.weights[1] * Base
                           + VectorScore(p) * call.weights[2] * (n + 1),
                         100 * Base * (n + 1) >>
    /\ \A p \in UnionProducts \ {""} :
          Scored(p).kind = "append" =>
             \/ \E i \in ResultIds : result[i] = Scored(p)
             \/ /\ Len(result) = call.limit
                /\ \A i \in ResultIds :
                      result[i].similarity_score >= Scored(p).similarity_score

\* an item seen on the vector path only, V = 0.8, weights 0.35/0.65, is
\* returned with base 0.52
C7_Witness ==
  /\ Fused
  /\ call.weights = <<35, 65>>
  /\ \E i \in ResultIds :
        /\ LexicalRanks(PidOf(result[i])) = {}
        /\ result[i].bm25_component = 0
        /\ result[i].vector_component = 8000
        /\ 100 * result[i].base[1] = 52 * result[i].base[2]

\* the documents of product p among all the BM25 retriever returned, as ranks
RetrievedLexicalRanks(p) ==
  {k \in 1..Len(call.store.lexical) :
     /\ ProductId(call.store.lexical[k]) = p
     /\ ~(call.product_only /\ NotProductSource(Meta(call.store.lexical[k])))}

\* the entries of product p among all the vector path returned
RetrievedVectorRanks(p) ==
  {k \in 1..Len(vector_results) : PidOf(vector_results[k]) = p}

\* bm25_scores of product p over everything retrieved, as the numerator over
\* Len(lexical) + 1
RetrievedLexicalScore(p) ==
  IF RetrievedLexicalRanks(p) = {} THEN 0
  ELSE SetMax({Len(call.store.lexical) + 1 - (k - 1) : k \in RetrievedLexicalRanks(p)})

RetrievedVectorScore(p) ==
  IF RetrievedVectorRanks(p) = {} THEN 0
  ELSE SetMax({vector_results[k].similarity_score : k \in RetrievedVectorRanks(p)})

\* the products either path returned
RetrievedProducts ==
  {p \in {ProductId(call.store.lexical[k]) : k \in 1..Len(call.store.lexical)}
            \cup {PidOf(vector_results[k]) : k \in 1..Len(vector_results)} :
     /\ p # ""
     /\ RetrievedLexicalRanks(p) \cup RetrievedVectorRanks(p) # {}}

RetrievedFirstDoc(p) ==
  IF RetrievedLexicalRanks(p) # {} THEN call.store.lexical[SetMin(RetrievedLexicalRanks(p))]
  ELSE vector_results[SetMin(RetrievedVectorRanks(p))].doc

\* what the fusion loop makes of product p given its scores over everything
\* retrieved
RetrievedScored(p) ==
  HybridCandidateTable[<<RetrievedFirstDoc(p),
                         <<RetrievedLexicalScore(p), Len(call.store.lexical)>>,
                         RetrievedVectorScore(p), <<call.query, call.tc>>,
                         call.score_threshold, call.weights>>]

\* C7 as stated: for every item either path returned, the base score is
\* bm25_weight * L + vector_weight * V with L and V the item's scores on the
\* two paths, 0 when absent from a path, and the item is returned if it
\* passes the filters (unless `limit` higher-ranked items fill the list).
C7_EveryRetrievedItemFused ==
  Fused =>
    /\ \A i \in ResultIds :
          LET p == PidOf(result[i])
              n == Len(call.store.lexical)
          IN  result[i].base
                 = << RetrievedLexicalScore(p) * call.weights[1] * Base
                        + RetrievedVectorScore(p) * call.weights[2] * (n + 1),
                      100 * Base * (n + 1) >>
    /\ \A p \in RetrievedProducts :
          RetrievedScored(p).kind = "append" =>
             \/ \E i \in ResultIds : result[i] = RetrievedScored(p)
             \/ /\ Len(result) = call.limit
                /\ \A i \in ResultIds :
                      result[i].similarity_score >= RetrievedScored(p).similarity_score

\* C8: with category weighting enabled and a non-empty target-category list,
\* every result passes is_product_matching_categories (MatchingTable) and
\* has compute_category_match_score (MatchScoreTable) >= 0.12.
C8_CategoryFilter ==
  (Returned /\ call.enable /\ call.tc # <<>>) =>
     \A i \in ResultIds :
        /\ MatchingTable[result[i].doc, call.tc]
        /\ LET m == MatchScoreTable[result[i].doc, call.tc]
           IN  100 * m[1] >= 12 * m[2]

\* a fused call whose best lexical hit fails the category match: the list
\* is not empty and the hit is not in it
C8_Witness ==
  /\ Fused
  /\ call.tc # <<>>
  /\ call.store.lexical # <<>>
  /\ ~MatchingTable[call.store.lexical[1], call.tc]
  /\ ProductId(call.store.lexical[1]) # ""
  /\ result # <<>>
  /\ \A i \in ResultIds : PidOf(result[i]) # ProductId(call.store.lexical[1])

\* C9: in a fused call with a non-empty target-category list the category
\* multiplier of every result is calculate_category_weight times
\* (1 + 0.45 * match score).
C9_HybridCategoryWeight ==
  (Fused /\ call.tc # <<>>) =>
     \A i \in ResultIds :
        LET w == CategoryWeightTable[result[i].doc, call.tc]
            b == MatchBoost(MatchScoreTable[result[i].doc, call.tc])
        IN  result[i].cat[1] * (w[2] * b[2]) = (w[1] * b[1]) * result[i].cat[2]

\* C10: the vector score a fused result reports is a similarity the vector
\* store gave for a document of that product.
C10_VectorScoreIsRetrieverScore ==
  Fused =>
     \A i \in ResultIds :
        result[i].vector_component > 0 =>
           \E k \in 1..Len(call.store.ranking) :
              /\ ProductId(call.store.ranking[k].doc) = PidOf(result[i])
              /\ call.store.ranking[k].score = result[i].vector_component

(***************************************************************************)
(* Failures                                                                *)
(***************************************************************************)
\* a chunk both loops skip under product_only (lines 333-335, 516-517)
SkippedDoc == Len(Documents)

\* scoring the ranked candidate raises in semantic_search_products
ScoringRaises(c) ==
  SemanticCandidateTable[c.doc, c.score, <<call.query, call.tc>>, call.score_threshold,
                         call.product_only, call.boost_keywords, call.enable].kind = "raise"

\* scoring the document raises in the fusion loop of hybrid_search_products
FusionRaises(doc) ==
  \/ call.tc # <<>> /\ CategoryMatchRaises(Meta(doc), call.tc)
  \/ AttributeMatchRaises(Meta(doc))
  \/ ProductTypeMatchRaises(Meta(doc))

\* the store of the call with every candidate whose scoring raises replaced,
\* at its rank, by a chunk the loops skip
IsolatedRanking ==
  [k \in 1..Len(call.store.ranking) |->
     IF ScoringRaises(call.store.ranking[k])
     THEN [doc |-> SkippedDoc, score |-> call.store.ranking[k].score]
     ELSE call.store.ranking[k]]

IsolatedLexical ==
  [k \in 1..Len(call.store.lexical) |->
     IF FusionRaises(call.store.lexical[k]) THEN SkippedDoc ELSE call.store.lexical[k]]

\* what the call returns when a candidate whose scoring raises is dropped
\* and nothing else changes
IsolatedResult ==
  IF call.fn = "semantic"
  THEN semantic_search_products([call.store EXCEPT !.ranking = IsolatedRanking],
                                call.query, call.tc, call.limit, call.score_threshold,
                                call.product_only, call.boost_keywords, call.enable)
  ELSE hybrid_search_products([call.store EXCEPT !.ranking = IsolatedRanking,
                                                 !.lexical = IsolatedLexical],
                              call.query, call.tc, call.limit, call.score_threshold,
                              call.product_only, call.weights, call.enable).result

\* C11: a candidate whose scoring raises is the only one dropped: the call
\* returns what it returns when that candidate is skipped, the other
\* candidates scored and returned as without it.
C11_FailureIsolatedPerCandidate ==
  Returned /\ call.store.vec = "ok" => result = IsolatedResult

\* a returned list as the caller ranks it: documents and scores
Ranked(seq) == [i \in 1..Len(seq) |-> <<seq[i].doc, seq[i].similarity_score>>]

\* the call is a hybrid one and exactly one of its retrieval paths failed
VectorPathDown  == call.fn = "hybrid" /\ call.store.vec = "raise" /\ call.store.bm25 = "ok"
LexicalPathDown == call.fn = "hybrid" /\ call.store.vec = "ok" /\ call.store.bm25 # "ok"

\* the call with the failed path working and returning nothing
BothPathsUp ==
  hybrid_search_products([call.store EXCEPT !.vec = "ok", !.bm25 = "ok"],
                         call.query, call.tc, call.limit, call.score_threshold,
                         call.product_only, call.weights, call.enable)

\* C12 as stated: with exactly one path unavailable the items are scored as
\* when both paths work and the items are absent from the missing path, that
\* is from the base vector_weight * V resp. bm25_weight * L.
C12_MissingPathScoresZero ==
  Returned /\ (VectorPathDown \/ LexicalPathDown) => Ranked(result) = Ranked(BothPathsUp.result)

\* C12 (amended): with the vector path unavailable every item is scored from
\* the base bm25_weight * L, the vector component 0; with the lexical path
\* unavailable the call returns what semantic_search_products returns for
\* the same arguments, the weights not applied.
C12_SinglePathDegradation ==
  /\ Returned /\ VectorPathDown =>
       /\ path = "fused"
       /\ \A i \in ResultIds :
             /\ result[i].vector_component = 0
             /\ result[i].base = << LexicalScore(PidOf(result[i])) * call.weights[1] * Base,
                                    100 * Base * (Len(call.store.lexical) + 1) >>
  /\ Returned /\ LexicalPathDown =>
       /\ path = "fallback"
       /\ Ranked(result) = Ranked(semantic_search_products(
                                    call.store, call.query, call.tc, call.limit,
                                    call.score_threshold, call.product_only, <<>>,
                                    call.enable))

\* the lexical path failed and a product ranked with similarity 0.8 is
\* returned with 0.8, not with 0.65 * 0.8
C12_Witness ==
  /\ Returned /\ LexicalPathDown
  /\ call.weights = <<35, 65>>
  /\ call.query = ""
  /\ \E i \in ResultIds : result[i].score = 8000 /\ result[i].similarity_score = 8000

\* both retrieval paths of a hybrid call failed
BothPathsDown == call.fn = "hybrid" /\ call.store.vec = "raise" /\ call.store.bm25 # "ok"

\* C13: no failure of the vector store or of the BM25 retriever leaves the
\* call as an exception: the call returns a list, and the list is empty when
\* vectorstore_updater is None, when the vector store of a semantic call
\* raises and when both paths of a hybrid call fail.
C13_NeverPropagates ==
  Returned =>
    /\ path # "raised"
    /\ call.store.vec = "none" => result = <<>>
    /\ call.fn = "semantic" /\ call.store.vec = "raise" => result = <<>>
    /\ BothPathsDown => result = <<>>

\* the vector store and the BM25 retriever both raise; the handler's call of
\* semantic_search_products returns the empty list
C13_Witness ==
  /\ Returned
  /\ BothPathsDown
  /\ call.store.bm25 = "raise"
  /\ path = "fallback"
  /\ result = <<>>

\* C14: a call with a negative limit is rejected: an error leaves the call
\* instead of a list.
C14_NegativeLimitRejected ==
  Returned /\ call.limit < 0 => path = "raised"

\* a candidate without product_id is among those the fusion reads: a document
\* of the first 2*limit the BM25 retriever returned or an entry of the first
\* 2*limit the vector path returned
AnonymousCandidate ==
  \/ \E k \in 1..Len(SliceTo(call.store.lexical, 2 * call.limit)) :
        ProductId(call.store.lexical[k]) = ""
  \/ \E k \in 1..Len(SliceTo(vector_results, 2 * call.limit)) :
        PidOf(vector_results[k]) = ""

\* C15 as stated: no result of hybrid_search_products is without product_id.
C15_NoAnonymousResult ==
  Returned /\ call.fn = "hybrid" => \A i \in ResultIds : PidOf(result[i]) # ""

\* C15 (amended): when hybrid_search_products fuses the two paths no result
\* is without product_id, and with such a candidate on a path every other
\* product the fusion read that passes the filters is still returned unless
\* `limit` items of at least its score fill the list.
C15_AnonymousExcludedFromFusion ==
  Fused =>
    /\ \A i \in ResultIds : PidOf(result[i]) # ""
    /\ AnonymousCandidate =>
         \A p \in UnionProducts \ {""} :
            Scored(p).kind = "append" =>
               \/ \E i \in ResultIds : PidOf(result[i]) = p
               \/ /\ Len(result) = call.limit
                  /\ \A i \in ResultIds :
                        result[i].similarity_score >= Scored(p).similarity_score

\* a fused call whose vector path returned an entry without product_id and
\* whose lexical path returned a product that is in the result
C15_Witness ==
  /\ Fused
  /\ \E k \in 1..Len(SliceTo(vector_results, 2 * call.limit)) : PidOf(vector_results[k]) = ""
  /\ \E k \in 1..Len(call.store.lexical) :
        /\ ProductId(call.store.lexical[k]) # ""
        /\ \E i \in ResultIds : PidOf(result[i]) = ProductId(call.store.lexical[k])

(***************************************************************************)
(* Truncation                                                              *)
(***************************************************************************)
\* the candidates the vector store returned for the semantic call at hand
Retrieved ==
  SliceTo(call.store.ranking, IF call.product_only THEN call.limit * 3 ELSE call.limit)

\* what the loop body makes of the k-th of them
Candidate(k) ==
  SemanticCandidateTable[Retrieved[k].doc, Retrieved[k].score, <<call.query, call.tc>>,
                         call.score_threshold, call.product_only, call.boost_keywords,
                         call.enable]

\* the product of the document is missing from the result
MissingFromResult(doc) ==
  IF ProductId(doc) = "" THEN \A i \in ResultIds : result[i].doc # doc
  ELSE \A i \in ResultIds : PidOf(result[i]) # ProductId(doc)

\* C16: semantic_search_products returns at most `limit` results, and no
\* candidate the store returned that passed the threshold and the category
\* filter and whose product is missing from the result has a final score
\* strictly greater than that of a returned result.
C16_BestWithinLimit ==
  Returned /\ path = "semantic" =>
    /\ Len(result) <= call.limit
    /\ \A k \in 1..Len(Retrieved) :
          Candidate(k).kind = "append" /\ MissingFromResult(Retrieved[k].doc) =>
             \A i \in ResultIds :
                Candidate(k).similarity_score <= result[i].similarity_score

(***************************************************************************)
(* Product types and keyword boost                                         *)
(***************************************************************************)
\* a result of either function
Answered == Returned /\ path \in {"semantic", "fallback", "fused"}

\* the product types, by position in PRODUCT_TYPES, of which a query holds a
\* keyword
MentionedTypesTable ==
  Tabulated([q \in AllQueries |->
               {t \in 1..Len(PRODUCT_TYPES) : AnyKeywordIn(PRODUCT_TYPES[t][2], Lower(q))}])

MentionedTypes == MentionedTypesTable[call.query]

\* the product types of which the name of a document holds a keyword
NameTypesTable ==
  Tabulated([doc \in DocIds |->
               {t \in 1..Len(PRODUCT_TYPES) :
                  AnyKeywordIn(PRODUCT_TYPES[t][2], NameLower(Meta(doc)))}])

NameHasType(doc, t) == t \in NameTypesTable[doc]

\* the mentioned types t such that the name of the document holds the
\* keyword of t that the loop finds in the query, the first of the type's
\* list that occurs there
QueryKeywordTypesTable ==
  Tabulated([doc \in DocIds, q \in AllQueries |->
               {t \in MentionedTypesTable[q] :
                  Contains(Lower(PRODUCT_TYPES[t][2][
                                   FirstKeywordIn(PRODUCT_TYPES[t][2], Lower(q))]),
                           NameLower(Meta(doc)))}])

NameHasQueryKeyword(doc, t) == t \in QueryKeywordTypesTable[doc, call.query]

C18_TypeStep ==
  Answered =>
    \A i \in ResultIds :
       /\ result[i].type \in {<<3, 2>>, <<1, 2>>, <<1, 1>>}
       /\ MentionedTypes = {} => result[i].type = <<1, 1>>
       /\ \A t \in MentionedTypes :
             MentionedTypes = {t} =>
                result[i].type = IF NameHasType(result[i].doc, t) THEN <<3, 2>> ELSE <<1, 2>>

\* the number of entries of the boost list of the call that occur in the
\* content or name of the document
BoostHits(doc) ==
  Cardinality({j \in 1..Len(call.boost_keywords) : BoostHitTable[doc, call.boost_keywords[j]]})

\* x multiplied k times by 1.15, capped at 1.0 each time
RECURSIVE BoostTimes(_, _)
BoostTimes(x, k) == IF k = 0 THEN x ELSE BoostTimes(Min1(FracMul(x, 115, 100)), k - 1)

\* C19 as stated: the keyword boost of semantic_search_products multiplies
\* the score of a candidate by 1.15 once, capped at 1.0, when at least one
\* boost keyword occurs in its content or name, however many occur, and the
\* value after the step is at most 1.0.
C19_KeywordBoostOnce ==
  Returned /\ path = "semantic" /\ call.boost_keywords # <<>> =>
    \A i \in ResultIds :
       /\ FracCmpUnits(result[i].boosted, Base) <= 0
       /\ result[i].similarity_score
             = ReportedScore(IF BoostHits(result[i].doc) >= 1
                             THEN Min1(FracMul(result[i].weighted, 115, 100))
                             ELSE result[i].weighted)

\* C19 (amended): the boost is applied once for every entry of the boost list
\* that occurs in the content or name of the candidate, capped at 1.0 each
\* time; the value after the step is at most 1.0 when at least one entry
\* occurs, and the score is left alone when none does.
C19_KeywordBoostPerKeyword ==
  Returned /\ path = "semantic" /\ call.boost_keywords # <<>> =>
    \A i \in ResultIds :
       /\ result[i].boosted = BoostTimes(result[i].weighted, BoostHits(result[i].doc))
       /\ result[i].similarity_score = ReportedScore(result[i].boosted)
       /\ BoostHits(result[i].doc) >= 1 => FracCmpUnits(result[i].boosted, Base) <= 0

\* both boost keywords occur in a candidate of score 0.8 before the step,
\* which is returned with min(min(0.8 * 1.15, 1) * 1.15, 1) = 1.0, where one
\* boost gives 0.92
C19_Witness ==
  /\ Returned /\ path = "semantic"
  /\ Len(call.boost_keywords) = 2
  /\ \E i \in ResultIds :
        /\ BoostHits(result[i].doc) = 2
        /\ result[i].weighted = Frac(8000, Base)
        /\ ReportedScore(Min1(FracMul(result[i].weighted, 115, 100))) = 9200
        /\ result[i].similarity_score = 10000

(***************************************************************************)
(* Blank queries                                                           *)
(***************************************************************************)
\* the query of the call is empty or holds white space only
BlankQuery == Strip(call.query) = ""

\* C20: for an empty or whitespace-only query no category, attribute or
\* product type is inferred, the category, attribute and type multipliers of
\* every result are 1, no error leaves the call, and the score of every
\* result is its base score (the similarity in semantic_search_products, the
\* fused base in hybrid_search_products) clamped to [0, 1].
C20_BlankQueryNeutral ==
  Returned /\ BlankQuery /\ call.boost_keywords = <<>> =>
    /\ path # "raised"
    /\ TargetListsTable[call.query] = {<<>>}
    /\ MentionedTypes = {}
    /\ \A i \in ResultIds :
          /\ result[i].cat = <<1, 1>>
          /\ result[i].attr = <<1, 1>>
          /\ result[i].type = <<1, 1>>
          /\ result[i].similarity_score
                = IF path = "fused"
                  THEN IF result[i].base[1] >= result[i].base[2] THEN Base
                       ELSE Round4(Frac(result[i].base[1], result[i].base[2]))
                  ELSE Min(result[i].score, Base)

(***************************************************************************)
(* The category weight                                                     *)
(***************************************************************************)
\* a call of calculate_category_weight has returned
WeightReturned == Returned /\ path = "helper" /\ call.fn = "calculate_category_weight"

\* the item and a target fall under the home-appliance umbrella: the
\* target list holds the home-appliance category and the item's category
\* contains it without being one of the targets
HomeApplianceUmbrella ==
  /\ InList("<751f><6d3b><5bb6><96fb>", call.target_categories)
  /\ Contains("<751f><6d3b><5bb6><96fb>", call.product_category)
  /\ ~InList(call.product_category, call.target_categories)

\* C22: calculate_category_weight gives 2.0 when the target list holds the
\* home-appliance category and the item's category contains it without
\* being literally one of the targets.
C22_UmbrellaWeight ==
  WeightReturned /\ HomeApplianceUmbrella => result = <<2, 1>>

\* a target relates to audio and so does the item's category
AudioRelated ==
  /\ \E i \in 1..Len(call.target_categories) :
        \/ Contains("<97f3><983b>", call.target_categories[i])
        \/ Contains("<5587><53ed>", call.target_categories[i])
  /\ \/ Contains("<97f3><983b>", call.product_category)
     \/ Contains("<5587><53ed>", call.product_category)

\* home entertainment is a target and the item's category names a projector
ProjectorAffinity ==
  /\ InList("<5bb6><5ead><5a1b><6a02>", call.target_categories)
  /\ Contains("<6295><5f71>", call.product_category)

AttributeReturned ==
  Returned /\ path = "helper" /\ call.fn = "compute_attribute_match_score"

\* the attributes with at least one trigger keyword in the lower-cased query
MentionedAttributes ==
  {a \in 1..Len(ATTRIBUTE_KEYWORDS) :
      AnyKeywordIn(ATTRIBUTE_KEYWORDS[a][2], Lower(call.query))}

\* the mentioned attributes with at least one trigger keyword in the item's
\* name, description and features
PresentAttributes ==
  {a \in MentionedAttributes :
      AnyKeywordIn(ATTRIBUTE_KEYWORDS[a][2], ProductText(Meta(call.doc)))}

\* C24: when the query mentions attributes, compute_attribute_match_score is
\* the number of mentioned attributes present in the item over the number of
\* mentioned attributes, an attribute being mentioned or present through
\* any of its trigger keywords.
C24_AttributeFraction ==
  AttributeReturned /\ MentionedAttributes # {} =>
    result[1] * Cardinality(MentionedAttributes)
      = Cardinality(PresentAttributes) * result[2]

(***************************************************************************)
(* The attribute step                                                      *)
(***************************************************************************)
\* the query holds a trigger keyword of some attribute
AttributeMentionedTable ==
  Tabulated([q \in AllQueries |->
               \E a \in 1..Len(ATTRIBUTE_KEYWORDS) :
                  AnyKeywordIn(ATTRIBUTE_KEYWORDS[a][2], Lower(q))])

\* m is the attribute multiplier that goes with the attribute score a:
\* 1 + 0.3 * a when a > 0.5 and 1 otherwise, never below 1
AttributeStepOf(a, m) ==
  /\ m[1] >= m[2]
  /\ 2 * a[1] > a[2] => 10 * a[2] * m[1] = (10 * a[2] + 3 * a[1]) * m[2]
  /\ 2 * a[1] <= a[2] => m[1] = m[2]

\* the score of the entry r before the keyword boost is its base times its
\* category, attribute and type multipliers
ScoreTimesMultipliers(r) ==
  r.weighted = FracMul(FracMul(FracMul(Frac(r.score, Base), r.cat[1], r.cat[2]),
                               r.attr[1], r.attr[2]), r.type[1], r.type[2])

\* C25: the attribute step never lowers a score: the score of every result
\* was multiplied by 1 + 0.3 * attributeScore exactly when attributeScore >
\* 0.5 and by 1 otherwise; compute_attribute_match_score is exactly 0.5 when
\* the query mentions no attribute, and then no result is adjusted.
C25_AttributeStep ==
  Returned /\ path \in {"semantic", "fallback", "fused"} =>
    \A i \in ResultIds :
       /\ AttributeStepOf(AttrScoreTable[result[i].doc, call.query], result[i].attr)
       /\ path # "fused" => ScoreTimesMultipliers(result[i])
       /\ ~AttributeMentionedTable[call.query] =>
             /\ AttrScoreTable[result[i].doc, call.query] = <<1, 2>>
             /\ result[i].attr = <<1, 1>>

\* a result whose item shows the one attribute of the query was multiplied
\* by 1.3
C25_Witness ==
  /\ FromSemantic
  /\ \E i \in ResultIds :
        /\ AttrScoreTable[result[i].doc, call.query] = <<1, 1>>
        /\ result[i].attr = <<13, 10>>

\* a result whose item shows one of the two attributes of the query was
\* left unchanged
C25_HalfMatch ==
  /\ Returned /\ path \in {"semantic", "fused"}
  /\ AttributeMentionedTable[call.query]
  /\ \E i \in ResultIds :
        /\ AttrScoreTable[result[i].doc, call.query] = <<1, 2>>
        /\ result[i].attr = <<1, 1>>

(***************************************************************************)
(* Several chunks of one product within a path                             *)
(***************************************************************************)
\* the merge of the fusion has run
Merged == Returned /\ path = "helper" /\ call.fn = "merge"

Reverse(seq) == [k \in 1..Len(seq) |-> seq[Len(seq) + 1 - k]]

\* the scores the merge holds, by product
MergedScores(merged) ==
  {<<merged[k].product_id, merged[k].bm25_score, merged[k].vector_score>> :
      k \in 1..Len(merged)}

\* C26: in the fusion, when a product appears several times within one path
\* the score kept for that path is the maximum of the scores observed for
\* the product on that path, in whatever order the occurrences arrive, and
\* the score of the other path is what that path alone observed.
C26_MaxPerPath ==
  Merged =>
    /\ \A k \in ResultIds :
          /\ result[k].vector_score = VectorScore(result[k].product_id)
          /\ result[k].bm25_score = LexicalScore(result[k].product_id)
    /\ MergedScores(result)
         = MergedScores(MergedResults(call.store,
                                      Reverse(SliceTo(vector_results, 2 * call.limit)),
                                      call.limit, call.product_only))

\* a product met on the lexical path arrived twice on the vector path, the
\* lower score first, and kept the higher one
C26_Witness ==
  /\ Merged
  /\ \E k \in ResultIds :
        /\ result[k].bm25_score > 0
        /\ result[k].vector_score = 8000
        /\ \E i, j \in VectorRanks(result[k].product_id) :
              /\ i < j
              /\ vector_results[i].similarity_score = 3200
              /\ vector_results[j].similarity_score = 8000

(***************************************************************************)
(* Inference of the target categories                                      *)
(***************************************************************************)
\* a call of infer_target_categories_from_query has returned
InferReturned ==
  Returned /\ path = "helper" /\ call.fn = "infer_target_categories_from_query"

\* the categories with a trigger keyword that is a substring of text
CategoriesTriggeredBy(text) ==
  {CATEGORY_KEYWORDS[c][1] : c \in
     {c \in 1..Len(CATEGORY_KEYWORDS) :
        \E j \in 1..Len(CATEGORY_KEYWORDS[c][2]) : Contains(CATEGORY_KEYWORDS[c][2][j], text)}}

C27_TwoCategories ==
  /\ InferReturned
  /\ call.query = "<667a><80fd>"
  /\ Len(result) = 2

(***************************************************************************)
(* The boolean category filter and the match score                         *)
(***************************************************************************)
\* is_product_matching_categories and compute_category_match_score have
\* returned for one item and one target list
CategoryMatchReturned == Returned /\ path = "helper" /\ call.fn = "category_match"

\* every target category is a key of CATEGORY_KEYWORDS
TargetsKnown ==
  \A i \in 1..Len(call.target_categories) :
     \E c \in 1..Len(CATEGORY_KEYWORDS) : CATEGORY_KEYWORDS[c][1] = call.target_categories[i]

\* C30: for target categories that are keys of CATEGORY_KEYWORDS, an item
\* accepted by is_product_matching_categories has a
\* compute_category_match_score of at least 0.25, so the check
\* `match_score < 0.12` that follows removes no item that passed the boolean
\* filter.
C30_AcceptedScoresQuarter ==
  CategoryMatchReturned /\ TargetsKnown /\ result.matching =>
    /\ 4 * result.match_score[1] >= result.match_score[2]
    /\ ~MatchTooLow(result.match_score)

\* an item accepted through one keyword of its text has match score 1/4
C30_Witness ==
  /\ CategoryMatchReturned
  /\ TargetsKnown
  /\ call.target_categories # <<>>
  /\ result.matching
  /\ result.match_score = <<1, 4>>

(***************************************************************************)
(* Raising the threshold                                                   *)
(***************************************************************************)
\* what semantic_search_products returns for the call at hand with the
\* threshold t in place of the caller's
ResultWithThreshold(t) ==
  IF call.store.vec = "none" THEN <<>>
  ELSE SemanticOutcome(call.store, call.query, call.tc, call.limit, t,
                       call.product_only, call.boost_keywords, call.enable).value

ProductsOf(list) == {PidOf(list[i]) : i \in 1..Len(list)}

\* the final scores of the list are pairwise distinct
DistinctScores(list) ==
  \A i, j \in 1..Len(list) : i # j => list[i].similarity_score # list[j].similarity_score

\* C28: for a fixed query, store and limit, and pairwise distinct final
\* scores, every product semantic_search_products returns with a threshold
\* is also returned with any lower threshold.
C28_ThresholdMonotone ==
  Returned /\ call.fn = "semantic" /\ DistinctScores(result) =>
    \A t \in Thresholds :
       t <= call.score_threshold /\ DistinctScores(ResultWithThreshold(t)) =>
          ProductsOf(result) \subseteq ProductsOf(ResultWithThreshold(t))

(***************************************************************************)
(* The order of the inferred target categories                             *)
(***************************************************************************)
\* the target list of the call at hand in every order
TargetOrders == ListsOf({call.tc[i] : i \in 1..Len(call.tc)})

\* what the call at hand returns with the target list tc
ResultWithTargets(tc) ==
  IF call.fn = "semantic"
  THEN IF call.store.vec = "none" THEN <<>>
       ELSE SemanticOutcome(call.store, call.query, tc, call.limit, call.score_threshold,
                            call.product_only, call.boost_keywords, call.enable).value
  ELSE hybrid_search_products(call.store, call.query, tc, call.limit,
                              call.score_threshold, call.product_only,
                              call.weights, call.enable).result

\* the category helpers agree on the item d for the target lists tc1, tc2
SameCategoryAnalysis(d, tc1, tc2) ==
  /\ CategoryMatchRaises(Meta(d), tc1) = CategoryMatchRaises(Meta(d), tc2)
  /\ CategoryWeightRaises(CategoryOf(d), tc1) = CategoryWeightRaises(CategoryOf(d), tc2)
  /\ MatchingTable[d, tc1] = MatchingTable[d, tc2]
  /\ MatchScoreTable[d, tc1] = MatchScoreTable[d, tc2]
  /\ CategoryWeightTable[d, tc1] = CategoryWeightTable[d, tc2]

\* C29: the outcome of ranking does not depend on the order of the inferred
\* target categories: for every order of the list,
\* is_product_matching_categories, compute_category_match_score and
\* calculate_category_weight give the same value for every item, and
\* semantic_search_products and hybrid_search_products return the same list.
C29_TargetOrderIrrelevant ==
  Returned /\ call.fn \in {"semantic", "hybrid"} =>
    \A tc \in TargetOrders :
       /\ \A d \in DocIds : SameCategoryAnalysis(d, call.tc, tc)
       /\ result = ResultWithTargets(tc)

\* a call with two target categories returned an item whose category is
\* the second of them
C29_Witness ==
  /\ Returned
  /\ call.fn \in {"semantic", "hybrid"}
  /\ Len(call.tc) = 2
  /\ \E i \in ResultIds : StrOf(CategoryOf(result[i].doc)) = call.tc[2]

====
